---- MODULE Spec2Model ----
(***************************************************************************)
(* A model of the AtomGL display drivers: the mailbox / worker-queue       *)
(* command dispatch of the current-generation drivers, the scanline        *)
(* compositor, the simulator's damage diff and the memory-LCD polarity     *)
(* toggle.                                                                 *)
(***************************************************************************)
EXTENDS Integers, Sequences, FiniteSets, TLC

(***************************************************************************)
(* Bounds of the model.                                                    *)
(***************************************************************************)
\* Capacity of display_messages_queue. The drivers create it with
\* xQueueCreate(32, sizeof(Message *)); the model scales the capacity down.
QueueLength == 2
\* Number of command messages the host delivers in one behaviour.
MaxMsgs == 3
\* Number of delivered messages that may wait in ctx->mailbox at once.
MaxMailbox == 1

(***************************************************************************)
(* PART 1: mailbox entry point, worker queue and worker task.              *)
(***************************************************************************)
VARIABLES
    driver,     \* which driver this instance is
    mailbox,    \* ctx->mailbox: messages delivered, not yet taken
    queue,      \* display_messages_queue
    nextId,     \* correlation token of the next message delivered
    hpc,        \* position of display_driver_consume_mailbox
    hmsg,       \* the message the entry point holds (msg)
    wpc,        \* position of each worker task (process_messages)
    wmsg,       \* the message each worker task holds (message)
    okReplies,  \* per token: number of {Ref, ok} replies sent
    imgReplies, \* per token: number of {Ref, Binary} load_image replies sent
    disposed,   \* per token: number of mailbox_message_dispose calls
    lost,       \* tokens whose message was neither enqueued nor disposed
    rasterizing,\* tokens whose do_update is executing
    transferred,\* tokens whose do_update ran rasterization and transfer to the end
    busFailed,  \* tokens whose do_update returned because the bus was not acquired
    updates,    \* tokens delivered with an update command
    procLog,    \* process_message entries and returns, in order
    hist        \* what the last completed entry-point invocation saw and did

qvars == <<driver, mailbox, queue, nextId, hpc, hmsg, wpc, wmsg, okReplies,
           imgReplies, disposed, lost, rasterizing, transferred, busFailed,
           updates, procLog, hist>>

\* State of the scanline compositor (PART 2).
VARIABLES
    family,      \* which rasterizer this instance runs
    displayList, \* the display list of the update command, first entry first
    items,       \* the BaseDisplayItem array do_update filled from the list
    xpos,        \* do_update's xpos
    ypos,        \* do_update's ypos
    frame,       \* per pixel: the value last written to the scanline buffer
    overflow,    \* a write went beyond the end of the scanline buffer
    upc          \* position of do_update

uvars == <<family, displayList, items, xpos, ypos, frame, overflow, upc>>

\* State of the simulator (PART 3).
VARIABLES
    simPrev,     \* prev_items (empty while prev_items is NULL)
    simOrig,     \* the list the last dumb_diff was given as orig
    simBuf,      \* screen->pixels
    simBefore,   \* screen->pixels when the last update began
    simDamage,   \* damaged of the last do_update
    simUpdates,  \* number of update commands processed
    simPast,     \* a write went beyond the end of screen->pixels
    simOobRead,  \* the last dumb_diff read orig[j] with j >= orig_len
    spc          \* position of the simulator's do_update

svars == <<simPrev, simOrig, simBuf, simBefore, simDamage, simUpdates, simPast,
           simOobRead, spc>>

\* State of the memory-LCD driver (PART 4).
VARIABLES
    vcom,        \* the module-level vcom
    mypos,       \* do_update's ypos
    firstMode,   \* per update begun: the mode byte of its first packet
    lastMode,    \* the mode byte of the last packet sent (0: none sent yet)
    mpc          \* position of the memory-LCD do_update

mvars == <<vcom, mypos, firstMode, lastMode, mpc>>

\* State of the e-paper driver (PART 5).
VARIABLES
    epc,              \* position of display_spi_init / do_update
    tickMs,           \* portTICK_PERIOD_MS of the build
    count_to_refresh, \* spi->count_to_refresh
    sinceLast,        \* ms elapsed since the time held in spi->last_refresh
    sincePrev,        \* ms elapsed since the previous call recorded its completion
    busHeld,          \* between spi_device_acquire_bus and spi_device_release_bus
    pollBlocked,      \* wait_busy_level is in its vTaskDelay
    epdUpdates,       \* number of do_update calls entered
    epdLog            \* the transfers started, in order

evars == <<epc, tickMs, count_to_refresh, sinceLast, sincePrev, busHeld,
           pollBlocked, epdUpdates, epdLog>>

\* State of the simulator's threads and its input subscription (PART 6).
VARIABLES
    cpc,          \* position of display_create_port (the constructor thread)
    lpc,          \* position of display_loop (the event-loop thread)
    ready_mutex,  \* owner of ready_mutex
    surfaceSet,   \* surface has been set by SDL_SetVideoMode
    screenSet,    \* screen and screen->pixels have been allocated
    theCtxSet,    \* the_ctx has been assigned
    keyboard_pid, \* keyboard_pid (0: not a pid)
    simCmds,      \* the commands process_message was run for, with what it did
    simEvents,    \* per input event handled: the processes it was sent to
    simDown       \* the process ended (abort or a NULL dereference)

tvars == <<cpc, lpc, ready_mutex, surfaceSet, screenSet, theCtxSet,
           keyboard_pid, simCmds, simEvents, simDown>>

\* State of display-list decoding (PART 7).
VARIABLES
    dpc,         \* position of do_update
    dList,       \* the display list of the update command, as sent
    dItems,      \* the BaseDisplayItem array, as far as init_item has filled it
    dFrame       \* per pixel: the value the scanline loop wrote

dvars == <<dpc, dList, dItems, dFrame>>

\* State of the ILI948x initialization (PART 8).
VARIABLES
    ipc,           \* position of display_init
    iopts,         \* the options display_init was given
    cs_gpio,       \* spi_config.cs_gpio
    deviceAdded,   \* spi_bus_add_device has been called
    busUses,       \* bus acquisitions and transfers so far
    errorLogged,   \* ESP_LOGE "Failed init: invalid display parameters."
    workerStarted  \* xTaskCreate(process_messages, ...) has been called

ivars == <<ipc, iopts, cs_gpio, deviceAdded, busUses, errorLogged, workerStarted>>

\* State of the legacy dispatch generation (PART 9).
VARIABLES
    legacy_driver,  \* which legacy driver runs: "memory" or "ili934x"
    legacy_pc,      \* position of the worker inside process_message
    legacyCmds,     \* the commands the worker has processed, oldest first
    replies_queue,  \* spi->replies_queue: callers whose reply is pending
    event_queue,    \* number of &spi entries waiting in event_queue
    repliesSent,    \* per processed command, the '$reply' messages sent
    repliesLost     \* commands whose PendingReply was not stored

lvars == <<legacy_driver, legacy_pc, legacyCmds, replies_queue, event_queue,
           repliesSent, repliesLost>>

\* State of the OLED update (PART 10).
VARIABLES
    opc,         \* position of the OLED do_update
    oledType,    \* spi->type
    oledItems,   \* the items array of the update
    oledYpos,    \* ypos of the scanline loop
    oledLine,    \* the first DISPLAY_WIDTH / 8 bytes of buf: the scanline bits
    out_buf,     \* buf + DISPLAY_WIDTH / 8: the page being assembled
    i2cHeld,     \* the I2C peripheral is acquired
    pageWrites   \* the page writes handed to i2c_master_cmd_begin, in order

ovars == <<opc, oledType, oledItems, oledYpos, oledLine, out_buf, i2cHeld,
           pageWrites>>

\* State of the simulator's allocations (PART 11).
VARIABLES
    apc,           \* position of process_message
    simMessage,    \* the message process_message took (0: none)
    msgKinds,      \* the messages taken so far, by kind; message n is entry n
    msgFrees,      \* per message, the destroy_message calls on it
    itemsBuilt,    \* the updates whose item array has been allocated
    itemsFrees,    \* per update, the free calls on its item array
    prev_items,    \* prev_items: the update whose item array it points to (0: NULL)
    prev_items_len,
    prev_message,  \* prev_message: the message it points to (0: NULL)
    freedRead      \* an item array or a message was read after it was freed

avars == <<apc, simMessage, msgKinds, msgFrees, itemsBuilt, itemsFrees,
           prev_items, prev_items_len, prev_message, freedRead>>

\* State of the queued SPI transfers of the ILI948x driver (PART 12).
VARIABLES
    bpc,            \* position of do_update or draw_buffer
    is_ili9488,     \* spi->is_ili9488
    dmaCmds,        \* commands run so far
    dmaLine,        \* ypos of do_update, or the chunk draw_buffer is at
    dmaChunks,      \* the dmawrite calls the running draw_buffer makes
    pixels,         \* the buffer screen->pixels points to
    bytes,          \* the buffer screen->bytes points to
    transaction_in_progress,
    queued,         \* buffers of the transfers queued and not yet awaited, oldest first
    hwDone,         \* how many of them the SPI master has finished sending
    tmpbufFreed,    \* draw_buffer has freed tmpbuf
    touchedQueued,  \* a buffer was written or freed with its transfer not awaited
    touchedSending  \* a buffer was written or freed while being sent

bvars == <<bpc, is_ili9488, dmaCmds, dmaLine, dmaChunks, pixels, bytes,
           transaction_in_progress, queued, hwDone, tmpbufFreed,
           touchedQueued, touchedSending>>

\* State of draw_buffer (PART 13).
VARIABLES
    gpc,         \* position of draw_buffer
    gdriver,     \* the driver whose draw_buffer runs
    dest_size,   \* width * height
    chunkAt,     \* source index of the chunk the loop is at
    tmpbufLen,   \* elements of tmpbuf as allocated
    readEnd,     \* one past the highest source index read so far
    writeEnd     \* one past the highest tmpbuf element written so far

gvars == <<gpc, gdriver, dest_size, chunkAt, tmpbufLen, readEnd, writeEnd>>

\* State of the font loader (PART 14).
VARIABLES
    fpc,          \* "binary": a font binary is at hand, "parsed": ufont_parse has run
    fontBin,      \* the binary given to ufont_parse
    loaded_font,  \* what ufont_parse returned
    lookups       \* the epd_get_glyph calls made on loaded_font, in order

fvars == <<fpc, fontBin, loaded_font, lookups>>

\* State of the allocations of one update on the hardware drivers (PART 15).
VARIABLES
    rpc,         \* "idle", "init", "acquire", "destroy", "done"
    rdriver,     \* the driver whose do_update runs
    ufont,       \* whether display_items.h is built with ENABLE_UFONT
    rList,       \* the display list of the update
    rItems,      \* the item array, as far as init_item has filled it
    rAllocated,  \* per entry: interop_term_to_string returned a string
    rFreed,      \* per entry: how often that string was freed
    itemsFreed,  \* how often the item array was freed
    wildFree     \* free was called on a pointer that was never assigned

rvars == <<rpc, rdriver, ufont, rList, rItems, rAllocated, rFreed, itemsFreed, wildFree>>

\* What each part's actions leave alone.
outsideQ == <<uvars, svars, mvars, evars, tvars, dvars, ivars, lvars, ovars, avars, bvars, gvars, fvars, rvars>>
outsideU == <<qvars, svars, mvars, evars, tvars, dvars, ivars, lvars, ovars, avars, bvars, gvars, fvars, rvars>>
outsideS == <<qvars, uvars, mvars, evars, tvars, dvars, ivars, lvars, ovars, avars, bvars, gvars, fvars, rvars>>
outsideM == <<qvars, uvars, svars, evars, tvars, dvars, ivars, lvars, ovars, avars, bvars, gvars, fvars, rvars>>
outsideE == <<qvars, uvars, svars, mvars, tvars, dvars, ivars, lvars, ovars, avars, bvars, gvars, fvars, rvars>>
outsideT == <<qvars, uvars, svars, mvars, evars, dvars, ivars, lvars, ovars, avars, bvars, gvars, fvars, rvars>>
outsideD == <<qvars, uvars, svars, mvars, evars, tvars, ivars, lvars, ovars, avars, bvars, gvars, fvars, rvars>>
outsideI == <<qvars, uvars, svars, mvars, evars, tvars, dvars, lvars, ovars, avars, bvars, gvars, fvars, rvars>>
outsideL == <<qvars, uvars, svars, mvars, evars, tvars, dvars, ivars, ovars, avars, bvars, gvars, fvars, rvars>>
outsideO == <<qvars, uvars, svars, mvars, evars, tvars, dvars, ivars, lvars, avars, bvars, gvars, fvars, rvars>>
outsideA == <<qvars, uvars, svars, mvars, evars, tvars, dvars, ivars, lvars, ovars, bvars, gvars, fvars, rvars>>
outsideB == <<qvars, uvars, svars, mvars, evars, tvars, dvars, ivars, lvars, ovars, avars, gvars, fvars, rvars>>
outsideG == <<qvars, uvars, svars, mvars, evars, tvars, dvars, ivars, lvars, ovars, avars, bvars, fvars, rvars>>
outsideF == <<qvars, uvars, svars, mvars, evars, tvars, dvars, ivars, lvars, ovars, avars, bvars, gvars, rvars>>
outsideR == <<qvars, uvars, svars, mvars, evars, tvars, dvars, ivars, lvars, ovars, avars, bvars, gvars, fvars>>

Drivers == {"ili948x", "st7789", "acep", "ssd1306"}

\* Commands a gen-call request can carry (first tuple element).
Cmds == {"update", "draw_buffer", "load_image", "other"}

NoMsg == [id |-> 0, cmd |-> "none"]

Ids == 1..MaxMsgs

\* A faulty variant: a second process_messages task on the same queue.
TwoWorkerTasks == {1, 2}
\* The worker tasks display_init creates: one xTaskCreate(process_messages, ...).
WorkerTasks == {1}

----------------------------------------------------------------------------
(* FreeRTOS queue primitives on a queue of capacity QueueLength.           *)

QueueFull(q) == Len(q) >= QueueLength

\* A faulty variant: the item at the back is received.
QueueFrontLifo(q) == [item |-> q[Len(q)], rest |-> SubSeq(q, 1, Len(q) - 1)]
\* xQueueReceive: the item at the front, and the rest.
QueueFront(q) == [item |-> Head(q), rest |-> Tail(q)]

\* A faulty variant: the item is put at the front.
QueueSendToFront(q, m) == <<m>> \o q
\* xQueueSend: the item is put at the back.
QueueSendToBack(q, m) == Append(q, m)

----------------------------------------------------------------------------
(* What process_message does with a decoded command, per driver.           *)

\* Commands for which the driver has a branch of its own.
KnownCmds(d) ==
    CASE d = "ili948x" -> {"update", "draw_buffer", "load_image"}
      [] d = "st7789"  -> {"update", "draw_buffer", "load_image"}
      [] d = "acep"    -> {"update", "load_image"}
      [] OTHER         -> {"update"}

\* A faulty variant: update is not recognised and takes the else branch.
BranchNeverUpdate(d, c) == IF c \in KnownCmds(d) \ {"update"} THEN c ELSE "other"
\* The branch process_message takes for command c.
Branch(d, c) == IF c \in KnownCmds(d) THEN c ELSE "other"

\* Whether process_message reaches the trailing {Ref, ok} send_message:
\* draw_buffer and load_image return before it.
SendsOk(d, c) == Branch(d, c) \in {"update", "other"}

\* The overflow policy of display_driver_consume_mailbox.
OverflowPolicy(d) == IF d = "ili948x" THEN "drop_oldest" ELSE "wait_one_tick"

----------------------------------------------------------------------------
(* History bookkeeping of the entry point's invocations.                   *)

NoHist == [done |-> FALSE, full |-> FALSE, interfered |-> FALSE,
           before |-> <<>>, after |-> <<>>, msg |-> 0, took |-> 0]

\* The correlation tokens of the messages in queue q, front first.
Tokens(q) == [k \in 1..Len(q) |-> q[k].id]

\* The invocation that has just returned with `q` as the queue it leaves.
Returned(h, q) == [h EXCEPT !.done = TRUE, !.after = Tokens(q)]

Bump(f, i) == [f EXCEPT ![i] = @ + 1]

QInit ==
    /\ driver \in Drivers
    /\ mailbox = <<>>
    /\ queue = <<>>
    /\ nextId = 1
    /\ hpc = "idle"
    /\ hmsg = NoMsg
    /\ wpc = [w \in WorkerTasks |-> "recv"]
    /\ wmsg = [w \in WorkerTasks |-> NoMsg]
    /\ okReplies = [i \in Ids |-> 0]
    /\ imgReplies = [i \in Ids |-> 0]
    /\ disposed = [i \in Ids |-> 0]
    /\ lost = {}
    /\ rasterizing = {}
    /\ transferred = {}
    /\ busFailed = {}
    /\ updates = {}
    /\ procLog = <<>>
    /\ hist = NoHist

\* The host runtime delivers a gen-call message carrying command c.
Deliver(c) ==
    /\ nextId <= MaxMsgs
    /\ Len(mailbox) < MaxMailbox
    /\ mailbox' = Append(mailbox, [id |-> nextId, cmd |-> c])
    /\ nextId' = nextId + 1
    /\ updates' = IF c = "update" THEN updates \cup {nextId} ELSE updates
    /\ UNCHANGED <<driver, queue, hpc, hmsg, wpc, wmsg, okReplies, imgReplies,
                   disposed, lost, rasterizing, transferred, busFailed, procLog,
                   hist>>
    /\ UNCHANGED outsideQ

\* display_driver_consume_mailbox up to its first xQueueSend:
\* mailbox_take_message takes one message, xQueueSend tries to enqueue it.
ConsumeMailbox ==
    /\ hpc = "idle"
    /\ mailbox # <<>>
    /\ LET msg == Head(mailbox)
           h0  == [NoHist EXCEPT !.msg = msg.id, !.before = Tokens(queue),
                                 !.full = QueueFull(queue),
                                 !.took = Len(mailbox) - Len(Tail(mailbox))]
       IN /\ mailbox' = Tail(mailbox)
          /\ IF ~QueueFull(queue)
             THEN /\ queue' = QueueSendToBack(queue, msg)
                  /\ hpc' = "idle"
                  /\ hmsg' = NoMsg
                  /\ hist' = Returned(h0, queue')
             ELSE /\ queue' = queue
                  /\ hpc' = OverflowPolicy(driver)
                  /\ hmsg' = msg
                  /\ hist' = h0
    /\ UNCHANGED <<driver, nextId, wpc, wmsg, okReplies, imgReplies, disposed,
                   lost, rasterizing, transferred, procLog,
                   busFailed, updates>>
    /\ UNCHANGED outsideQ

\* ili948x, queue full: xQueueReceive(queue, &old, 0) and dispose of old.
DropOldest ==
    /\ hpc = "drop_oldest"
    /\ IF queue # <<>>
       THEN /\ queue' = QueueFront(queue).rest
            /\ disposed' = Bump(disposed, QueueFront(queue).item.id)
       ELSE UNCHANGED <<queue, disposed>>
    /\ hpc' = "resend"
    /\ UNCHANGED <<driver, mailbox, nextId, hmsg, wpc, wmsg, okReplies,
                   imgReplies, lost, rasterizing, transferred, procLog, hist,
                   busFailed, updates>>
    /\ UNCHANGED outsideQ

\* ili948x: the second xQueueSend(queue, &msg, 0); msg is disposed if it fails.
Resend ==
    /\ hpc = "resend"
    /\ IF ~QueueFull(queue)
       THEN /\ queue' = QueueSendToBack(queue, hmsg)
            /\ UNCHANGED disposed
       ELSE /\ disposed' = Bump(disposed, hmsg.id)
            /\ UNCHANGED queue
    /\ hpc' = "idle"
    /\ hmsg' = NoMsg
    /\ hist' = Returned(hist, queue')
    /\ UNCHANGED <<driver, mailbox, nextId, wpc, wmsg, okReplies, imgReplies,
                   lost, rasterizing, transferred, procLog,
                   busFailed, updates>>
    /\ UNCHANGED outsideQ

\* message_helpers.h, st7789, acep: xQueueSend(queue, &msg, 1) blocked on a
\* full queue is woken because the worker made room within the tick.
SendUnblocked ==
    /\ hpc = "wait_one_tick"
    /\ ~QueueFull(queue)
    /\ queue' = QueueSendToBack(queue, hmsg)
    /\ hpc' = "idle"
    /\ hmsg' = NoMsg
    /\ hist' = Returned(hist, queue')
    /\ UNCHANGED <<driver, mailbox, nextId, wpc, wmsg, okReplies, imgReplies,
                   disposed, lost, rasterizing, transferred, procLog,
                   busFailed, updates>>
    /\ UNCHANGED outsideQ

\* The tick expires with the queue still full: xQueueSend returns errQUEUE_FULL,
\* the result is ignored and the entry point returns NativeContinue.
SendTimeout ==
    /\ hpc = "wait_one_tick"
    /\ QueueFull(queue)
    /\ lost' = lost \cup {hmsg.id}
    /\ hpc' = "idle"
    /\ hmsg' = NoMsg
    /\ hist' = Returned(hist, queue)
    /\ UNCHANGED <<driver, mailbox, queue, nextId, wpc, wmsg, okReplies,
                   imgReplies, disposed, rasterizing, transferred, procLog,
                   busFailed, updates>>
    /\ UNCHANGED outsideQ

----------------------------------------------------------------------------
(* The worker task: process_messages and process_message.                  *)

\* process_messages: xQueueReceive(queue, &message, portMAX_DELAY).
Receive(w) ==
    /\ wpc[w] = "recv"
    /\ queue # <<>>
    /\ wmsg' = [wmsg EXCEPT ![w] = QueueFront(queue).item]
    /\ queue' = QueueFront(queue).rest
    /\ wpc' = [wpc EXCEPT ![w] = "process"]
    /\ hist' = IF hpc # "idle" THEN [hist EXCEPT !.interfered = TRUE] ELSE hist
    /\ UNCHANGED <<driver, mailbox, nextId, hpc, hmsg, okReplies, imgReplies,
                   disposed, lost, rasterizing, transferred, procLog,
                   busFailed, updates>>
    /\ UNCHANGED outsideQ

\* process_message is entered: the command is decoded and its branch chosen.
Process(w) ==
    /\ wpc[w] = "process"
    /\ procLog' = Append(procLog, <<"begin", wmsg[w].id>>)
    /\ wpc' = [wpc EXCEPT ![w] = Branch(driver, wmsg[w].cmd)]
    /\ rasterizing' = IF Branch(driver, wmsg[w].cmd) = "update"
                      THEN rasterizing \cup {wmsg[w].id} ELSE rasterizing
    /\ UNCHANGED <<driver, mailbox, queue, nextId, hpc, hmsg, wmsg, okReplies,
                   imgReplies, disposed, lost, transferred, hist,
                   busFailed, updates>>
    /\ UNCHANGED outsideQ

\* Where process_message goes once the branch for the command is done.
AfterBranch(w) ==
    IF SendsOk(driver, wmsg[w].cmd)
    THEN /\ wpc' = [wpc EXCEPT ![w] = "reply"]
         /\ UNCHANGED procLog
    ELSE /\ wpc' = [wpc EXCEPT ![w] = "dispose"]
         /\ procLog' = Append(procLog, <<"end", wmsg[w].id>>)

\* do_update runs to its end: every scanline rasterized and its transfer awaited.
UpdateDone(w) ==
    /\ wpc[w] = "update"
    /\ rasterizing' = rasterizing \ {wmsg[w].id}
    /\ transferred' = transferred \cup {wmsg[w].id}
    /\ AfterBranch(w)
    /\ UNCHANGED <<driver, mailbox, queue, nextId, hpc, hmsg, wmsg, okReplies,
                   imgReplies, disposed, lost, hist,
                   busFailed, updates>>
    /\ UNCHANGED outsideQ

\* ssd1306 do_update: i2c_driver_acquire fails and do_update returns at once.
UpdateNoBus(w) ==
    /\ wpc[w] = "update"
    /\ driver = "ssd1306"
    /\ rasterizing' = rasterizing \ {wmsg[w].id}
    /\ busFailed' = busFailed \cup {wmsg[w].id}
    /\ AfterBranch(w)
    /\ UNCHANGED <<driver, mailbox, queue, nextId, hpc, hmsg, wmsg, okReplies,
                   imgReplies, disposed, lost, transferred, updates, hist>>
    /\ UNCHANGED outsideQ

\* draw_buffer: the blit, then return without a reply.
DrawBuffer(w) ==
    /\ wpc[w] = "draw_buffer"
    /\ AfterBranch(w)
    /\ UNCHANGED <<driver, mailbox, queue, nextId, hpc, hmsg, wmsg, okReplies,
                   imgReplies, disposed, lost, rasterizing, transferred, hist,
                   busFailed, updates>>
    /\ UNCHANGED outsideQ

\* handle_load_image: sends {Ref, Binary} itself; process_message returns.
LoadImage(w) ==
    /\ wpc[w] = "load_image"
    /\ imgReplies' = Bump(imgReplies, wmsg[w].id)
    /\ AfterBranch(w)
    /\ UNCHANGED <<driver, mailbox, queue, nextId, hpc, hmsg, wmsg, okReplies,
                   disposed, lost, rasterizing, transferred, hist,
                   busFailed, updates>>
    /\ UNCHANGED outsideQ

\* An unrecognised command: logged, then the common reply.
OtherCmd(w) ==
    /\ wpc[w] = "other"
    /\ AfterBranch(w)
    /\ UNCHANGED <<driver, mailbox, queue, nextId, hpc, hmsg, wmsg, okReplies,
                   imgReplies, disposed, lost, rasterizing, transferred, hist,
                   busFailed, updates>>
    /\ UNCHANGED outsideQ

\* send_message(gen_message.pid, {gen_message.ref, ok}); process_message returns.
Reply(w) ==
    /\ wpc[w] = "reply"
    /\ okReplies' = Bump(okReplies, wmsg[w].id)
    /\ procLog' = Append(procLog, <<"end", wmsg[w].id>>)
    /\ wpc' = [wpc EXCEPT ![w] = "dispose"]
    /\ UNCHANGED <<driver, mailbox, queue, nextId, hpc, hmsg, wmsg, imgReplies,
                   disposed, lost, rasterizing, transferred, hist,
                   busFailed, updates>>
    /\ UNCHANGED outsideQ

\* process_messages: mailbox_message_dispose(&message->base, ...).
Dispose(w) ==
    /\ wpc[w] = "dispose"
    /\ disposed' = Bump(disposed, wmsg[w].id)
    /\ wmsg' = [wmsg EXCEPT ![w] = NoMsg]
    /\ wpc' = [wpc EXCEPT ![w] = "recv"]
    /\ UNCHANGED <<driver, mailbox, queue, nextId, hpc, hmsg, okReplies,
                   imgReplies, lost, rasterizing, transferred, procLog, hist,
                   busFailed, updates>>
    /\ UNCHANGED outsideQ

HandlerStep == ConsumeMailbox \/ DropOldest \/ Resend \/ SendUnblocked \/ SendTimeout

WorkerStep(w) ==
    \/ Receive(w) \/ Process(w) \/ UpdateDone(w) \/ UpdateNoBus(w)
    \/ DrawBuffer(w) \/ LoadImage(w) \/ OtherCmd(w) \/ Reply(w) \/ Dispose(w)

QNext ==
    \/ \E c \in Cmds : Deliver(c)
    \/ HandlerStep
    \/ \E w \in WorkerTasks : WorkerStep(w)

(***************************************************************************)
(* PART 2: the scanline compositor: do_update, draw_x, find_max_line_len   *)
(* and the per-item drawing functions of three rasterizers.                *)
(***************************************************************************)
\* Screen size in pixels (DISPLAY_WIDTH x DISPLAY_HEIGHT, screen->w x
\* screen->h); the panels are 128x64 and larger, the model scales them down.
ScreenW == 4
ScreenH == 2

\* "monochrome": draw_common.h + monochrome.h (the SSD1306 driver);
\* "ili948x": ili948x_display_driver.c; "display_driver": display_driver.c;
\* "ili934x": ili934x_display_driver.c, whose drawing functions are those of
\* ili948x_display_driver.c and whose find_max_line_len is display_driver.c's.
\* The drawing operators below also take "sdl", the simulator's rasterizer
\* (sdl_display/display.c), which PART 3 runs.
Families == {"monochrome", "ili948x", "ili934x", "display_driver"}

\* Content of a scanline buffer position no draw function has written.
Stale == 0 - 1

Min(a, b) == IF a < b THEN a ELSE b
Max(a, b) == IF a > b THEN a ELSE b

\* Colours and pixels are four bytes in memory order R, G, B, A.
\* item->brcolor == 0 is the all-zero word.
NoColor == <<0, 0, 0, 0>>
White == <<255, 255, 255, 255>>
Black == <<0, 0, 0, 255>>
Grey == <<96, 96, 96, 255>>

\* Image contents the model draws from, by pixel index into the pix array.
Patterns == {"clear", "solid", "stripe", "half"}

PixelAt(pat, idx) ==
    CASE pat = "clear" -> <<255, 255, 255, 0>>
      [] pat = "solid" -> <<0, 0, 0, 255>>
      [] pat = "half" -> <<255, 255, 255, 128>>
      [] OTHER -> IF idx % 2 = 0 THEN <<255, 255, 255, 0>> ELSE <<255, 255, 255, 255>>

\* ---- monochrome.h ----
\* The zero-centred dither matrix m[4][4] of get_color.
DitherMatrix ==
    << <<0 - 32, 0, 0 - 24, 8>>,
       <<16, 0 - 16, 24, 0 - 8>>,
       <<0 - 20, 12, 0 - 28, 4>>,
       <<28, 0 - 4, 20, 0 - 12>> >>

get_color(x, y, r, g, b) ==
    LET v == DitherMatrix[(x % 4) + 1][(y % 4) + 1]
        out_r == r + v
        out_g == g + v
        out_b == b + v
        yval == ((out_r * 2) + out_r + (out_g * 4) + out_b) \div 8
    IN IF yval >= 128 THEN 1 ELSE 0

\* ---- colour helpers of the two TFT drivers ----
rgba8888_get_alpha(color) == color[4]

rgba8888_color_to_rgb565(color) ==
    ((color[1] \div 8) * 2048) + ((color[2] \div 4) * 32) + (color[3] \div 8)

\* SPI_SWAP_DATA_TX(color16, 16): the two bytes exchanged.
rgb565_color_to_surface(color16) == ((color16 % 256) * 256) + (color16 \div 256)

uint32_color_to_surface(color) == rgb565_color_to_surface(rgba8888_color_to_rgb565(color))

\* The simulator's uint32_color_to_surface: SDL_MapRGB of the three colour bytes.
MapRGB(color) == (color[1] * 65536) + (color[2] * 256) + color[3]

\* 32-bit unsigned words as <<high half, low half>>, each half in 0..65535.
Spread565(c) == <<((c \div 32) % 64) * 32, ((c \div 2048) * 2048) + (c % 32)>>

Sub32(a, b) ==
    LET lo == a[2] - b[2]
        borrow == IF lo < 0 THEN 1 ELSE 0
    IN <<(a[1] - b[1] - borrow) % 65536, lo % 65536>>

Mul32(a, n) ==
    LET lo == a[2] * n
    IN <<((a[1] * n) + (lo \div 65536)) % 65536, lo % 65536>>

Shr5(a) == <<a[1] \div 32, (a[2] \div 32) + ((a[1] % 32) * 2048)>>

Add32(a, b) ==
    LET lo == a[2] + b[2]
    IN <<(a[1] + b[1] + (lo \div 65536)) % 65536, lo % 65536>>

alpha_blend_rgb565(fg, bg, alpha) ==
    LET a5 == (alpha + 4) \div 8
        sbg == Spread565(bg)
        sfg == Spread565(fg)
        sum == Add32(Shr5(Mul32(Sub32(sfg, sbg), a5)), sbg)
        hi == ((sum[1] \div 32) % 64) * 32
        lo == ((sum[2] \div 2048) * 2048) + (sum[2] % 32)
    IN hi + lo

\* ---- display items (init_item) ----
Geometries ==
    {[x |-> gx, y |-> gy, width |-> s[1], height |-> s[2]] :
        gx \in 0..2, gy \in 0..1, s \in {<<2, 1>>, <<3, 2>>}}

\* {rect, X, Y, Width, Height, Color}: brcolor is Color << 8 | 0xFF.
Rects ==
    {[primitive |-> "Rect", x |-> g.x, y |-> g.y, width |-> g.width,
      height |-> g.height, brcolor |-> c, pix |-> "none"] :
        g \in Geometries, c \in {White, Black}}

\* {image, X, Y, BgColor, {rgba8888, W, H, Pix}}: brcolor is 0 for the atom
\* transparent, BgColor << 8 | 0xFF otherwise.
Images ==
    {[primitive |-> "Image", x |-> g.x, y |-> g.y, width |-> g.width,
      height |-> g.height, brcolor |-> pb[2], pix |-> pb[1]] :
        g \in Geometries,
        pb \in {<<"clear", NoColor>>, <<"solid", NoColor>>, <<"stripe", NoColor>>,
                <<"half", NoColor>>, <<"half", Grey>>, <<"clear", Grey>>}}

DisplayItems == Rects \cup Images

\* Display lists of up to two entries.
DisplayLists ==
    {<<>>} \cup {<<a>> : a \in DisplayItems}
           \cup {<<a, b>> : a \in DisplayItems, b \in DisplayItems}

Reverse(s) == [k \in 1..Len(s) |-> s[Len(s) + 1 - k]]

\* The items array do_update fills: display_driver.c stores the list's head
\* at items[len - 1] and walks down, the other drivers store it at items[0].
FillItems(f, l) == IF f = "display_driver" THEN Reverse(l) ELSE l

\* ---- per-item drawing ----
\* A faulty variant: the red byte is tested in place of the alpha byte.
OpaqueByRed(f, p) == IF f \in {"monochrome", "sdl"} THEN p[1] # 0 ELSE p[1] = 255
\* Whether draw_image_x takes the pixel as opaque. monochrome.h and the
\* simulator test the top byte of the natively read (little-endian) word, the
\* TFT drivers compare rgba8888_get_alpha with 0xFF.
OpaquePixel(f, p) ==
    IF f \in {"monochrome", "sdl"} THEN p[4] # 0 ELSE rgba8888_get_alpha(p) = 255

\* Number of pixels the clipped loop "for (j = xpos - x; j < width; j++)" visits.
RunLen(xp, max_line_len, item) ==
    LET width == Min(item.width, xp - item.x + max_line_len)
    IN Max(0, width - (xp - item.x))

draw_rect_x(f, xp, yp, max_line_len, item) ==
    LET n == RunLen(xp, max_line_len, item)
    IN [k \in 1..n |->
          CASE f = "monochrome" ->
                   get_color(xp + k - 1, yp, item.brcolor[1], item.brcolor[2], item.brcolor[3])
            [] f = "sdl" -> MapRGB(item.brcolor)
            [] OTHER -> uint32_color_to_surface(item.brcolor)]

ImagePixelValue(f, x, y, p, brcolor) ==
    IF f = "monochrome"
    THEN IF OpaquePixel(f, p)
         THEN get_color(x, y, p[1], p[2], p[3])
         ELSE get_color(x, y, brcolor[1], brcolor[2], brcolor[3])
    ELSE IF f = "sdl"
    THEN IF OpaquePixel(f, p) THEN MapRGB(p) ELSE MapRGB(brcolor)
    ELSE IF OpaquePixel(f, p)
         THEN uint32_color_to_surface(p)
         ELSE rgb565_color_to_surface(
                  alpha_blend_rgb565(rgba8888_color_to_rgb565(p),
                                     rgba8888_color_to_rgb565(brcolor),
                                     rgba8888_get_alpha(p)))

draw_image_x(f, xp, yp, max_line_len, item) ==
    LET n == RunLen(xp, max_line_len, item)
        visible_bg == item.brcolor # NoColor
        px(k) == PixelAt(item.pix, ((yp - item.y) * item.width) + (xp - item.x) + k - 1)
        stops == {k \in 1..n : ~OpaquePixel(f, px(k)) /\ ~visible_bg}
        drawn == IF stops = {} THEN n
                 ELSE (CHOOSE k \in stops : \A j \in stops : k <= j) - 1
    IN [k \in 1..drawn |-> ImagePixelValue(f, xp + k - 1, yp, px(k), item.brcolor)]

find_max_line_len(f, its, count, xp, yp) ==
    LET line_len == IF f \in {"display_driver", "ili934x", "sdl"} THEN ScreenW ELSE ScreenW - xp
        ahead == {its[i].x - xp : i \in {j \in 1..count :
                     /\ xp < its[j].x
                     /\ yp >= its[j].y
                     /\ yp < its[j].y + its[j].height}}
        lens == ahead \cup {line_len}
    IN CHOOSE m \in lens : \A o \in lens : m <= o

Covers(item, xp, yp) ==
    ~(\/ xp < item.x \/ xp >= item.x + item.width
      \/ yp < item.y \/ yp >= item.y + item.height)

\* draw_x's loop from item index i on (1-based). The result is the returned
\* drawn_pixels and the values written from xpos on.
RECURSIVE draw_x_from(_, _, _, _, _, _)
draw_x_from(f, i, below, xp, yp, its) ==
    IF i > Len(its) THEN [drawn_pixels |-> 1, written |-> <<>>]
    ELSE IF ~Covers(its[i], xp, yp) THEN draw_x_from(f, i + 1, below, xp, yp, its)
    ELSE LET max_line_len == IF below THEN 1 ELSE find_max_line_len(f, its, i - 1, xp, yp)
             w == CASE its[i].primitive = "Image" ->
                          draw_image_x(f, xp, yp, max_line_len, its[i])
                    [] its[i].primitive = "Rect" ->
                          draw_rect_x(f, xp, yp, max_line_len, its[i])
                    [] OTHER -> <<>>
         IN IF Len(w) # 0 THEN [drawn_pixels |-> Len(w), written |-> w]
            ELSE draw_x_from(f, i + 1, TRUE, xp, yp, its)

draw_x(f, xp, yp, its) == draw_x_from(f, 1, FALSE, xp, yp, its)

\* ---- do_update ----
BlankFrame == [p \in (0..(ScreenW - 1)) \X (0..(ScreenH - 1)) |-> Stale]

UInit ==
    /\ family \in Families
    /\ displayList = <<>>
    /\ items = <<>>
    /\ xpos = 0
    /\ ypos = 0
    /\ frame = BlankFrame
    /\ overflow = FALSE
    /\ upc = "idle"

\* do_update up to the scanline loop: the items array is filled from the list.
DoUpdate ==
    /\ upc = "idle"
    /\ \E l \in DisplayLists :
          /\ displayList' = l
          /\ items' = FillItems(family, l)
    /\ xpos' = 0
    /\ ypos' = 0
    /\ frame' = BlankFrame
    /\ overflow' = FALSE
    /\ upc' = "line"
    /\ UNCHANGED family
    /\ UNCHANGED outsideU

\* One iteration of "while (xpos < screen_width)": a draw_x call.
DrawX ==
    /\ upc = "line"
    /\ xpos < ScreenW
    /\ \E r \in {draw_x(family, xpos, ypos, items)} :
          /\ frame' = [p \in DOMAIN frame |->
                          IF p[2] = ypos /\ p[1] >= xpos /\ p[1] < xpos + Len(r.written)
                          THEN r.written[p[1] - xpos + 1]
                          ELSE frame[p]]
          /\ overflow' = (overflow \/ xpos + Len(r.written) > ScreenW)
          /\ xpos' = xpos + r.drawn_pixels
    /\ UNCHANGED <<family, displayList, items, ypos, upc>>
    /\ UNCHANGED outsideU

\* The scanline is complete and handed to the panel; the next one starts.
EndOfLine ==
    /\ upc = "line"
    /\ xpos >= ScreenW
    /\ IF ypos + 1 < ScreenH
       THEN /\ ypos' = ypos + 1
            /\ xpos' = 0
            /\ upc' = "line"
       ELSE /\ upc' = "done"
            /\ UNCHANGED <<xpos, ypos>>
    /\ UNCHANGED <<family, displayList, items, frame, overflow>>
    /\ UNCHANGED outsideU

UNext == DoUpdate \/ DrawX \/ EndOfLine

(***************************************************************************)
(* PART 3: the simulator (sdl_display/display.c): do_update redraws only   *)
(* the damage rectangle dumb_diff computes against the previous list.      *)
(***************************************************************************)
\* Number of update commands the simulator processes in one behaviour.
MaxUpdates == 2

\* The binaries image items point into: address -> content. Addresses 1 and 2
\* hold the same pixels in two places.
ImageAt(ptr) == IF ptr = 3 THEN "stripe" ELSE "solid"

SimRects ==
    {[primitive |-> "Rect", x |-> g[1], y |-> g[2], width |-> g[3],
      height |-> g[4], brcolor |-> g[5], pix |-> "none", ptr |-> 0] :
        g \in {<<0, 0, 2, 2, White>>, <<2, 0, 2, 1, Black>>,
               <<2, 1, 2, 1, Grey>>, <<1, 0, 2, 1, Black>>}}

SimImages ==
    {[primitive |-> "Image", x |-> 0, y |-> 0, width |-> 2, height |-> 2,
      brcolor |-> NoColor, pix |-> ImageAt(a), ptr |-> a] : a \in {1, 2, 3}}

SimItems == SimRects \cup SimImages

\* Display lists of up to three different items.
SimLists ==
    {<<>>} \cup {<<a>> : a \in SimItems}
           \cup {l \in {<<a, b>> : a \in SimItems, b \in SimItems} : l[1] # l[2]}
           \cup {l \in {<<a, b, c>> : a \in SimRects, b \in SimRects, c \in SimItems} :
                    l[1] # l[2] /\ l[1] # l[3] /\ l[2] # l[3]}

cmp_display_item(a, b) ==
    IF \/ a.primitive # b.primitive \/ a.x # b.x \/ a.y # b.y
       \/ a.width # b.width \/ a.height # b.height \/ a.brcolor # b.brcolor
    THEN FALSE
    ELSE IF a.primitive = "Image" THEN a.ptr = b.ptr ELSE TRUE

\* struct Rectangle; damaged.valid = false, the other fields not yet set.
NoDamage == [valid |-> FALSE, x |-> 0, y |-> 0, width |-> 0, height |-> 0]

ItemRect(item) ==
    [valid |-> TRUE, x |-> item.x, y |-> item.y, width |-> item.width,
     height |-> item.height]

\* area->x and area->y are assigned first and the new values are then used
\* for the width and the height.
update_damaged_area(area, damage) ==
    IF area.valid
    THEN LET nx == Min(area.x, damage.x)
             ny == Min(area.y, damage.y)
         IN [valid |-> TRUE, x |-> nx, y |-> ny,
             width |-> Max(nx + area.width, damage.x + damage.width) - nx,
             height |-> Max(ny + area.height, damage.y + damage.height) - ny]
    ELSE damage

clip_rectangle(rectangle, clip_region) ==
    LET nx == Max(rectangle.x, clip_region.x)
        ny == Max(rectangle.y, clip_region.y)
    IN [valid |-> rectangle.valid, x |-> nx, y |-> ny,
        width |-> Min(nx + rectangle.width, clip_region.x + clip_region.width) - nx,
        height |-> Min(ny + rectangle.height, clip_region.y + clip_region.height) - ny]

ScreenRect == [valid |-> TRUE, x |-> 0, y |-> 0, width |-> ScreenW, height |-> ScreenH]

\* update_damaged_area for its[from], ..., its[to] in turn (1-based).
RECURSIVE DamageItems(_, _, _, _)
DamageItems(its, from, to, area) ==
    IF from > to THEN area
    ELSE DamageItems(its, from + 1, to, update_damaged_area(area, ItemRect(its[from])))

\* The main loop of dumb_diff from new[i] on; i is 1-based, j is the C index.
\* Reading orig[j] with j >= orig_len reads past the array: for the entries of
\* new in oobEq the comparison with that memory comes out equal.
RECURSIVE diff_from(_, _, _, _, _, _)
diff_from(orig, new, i, j, area, oobEq) ==
    IF i > Len(new) THEN area
    ELSE LET same == IF j < Len(orig) THEN cmp_display_item(new[i], orig[j + 1])
                     ELSE i \in oobEq
             ks == {k \in (j + 1)..(Len(orig) - 1) : cmp_display_item(new[i], orig[k + 1])}
             k == CHOOSE m \in ks : \A o \in ks : m <= o
         IN IF same THEN diff_from(orig, new, i + 1, j + 1, area, oobEq)
            ELSE IF ks # {}
            THEN diff_from(orig, new, i + 1, k + 1,
                           DamageItems(orig, (k - j) + 1, k, area), oobEq)
            ELSE diff_from(orig, new, i + 1, j,
                           update_damaged_area(area, ItemRect(new[i])), oobEq)

dumb_diff(orig, new, oobEq) ==
    IF Len(orig) = 0 THEN DamageItems(new, 1, Len(new), NoDamage)
    ELSE diff_from(orig, new, 1, 0, NoDamage, oobEq)

\* Whether dumb_diff reads orig[j] with j >= orig_len at entry i of new.
RECURSIVE ReadsPastOrig(_, _, _, _, _)
ReadsPastOrig(orig, new, i, j, oobEq) ==
    IF i > Len(new) THEN FALSE
    ELSE IF j >= Len(orig) THEN TRUE
    ELSE LET ks == {k \in (j + 1)..(Len(orig) - 1) : cmp_display_item(new[i], orig[k + 1])}
             k == CHOOSE m \in ks : \A o \in ks : m <= o
         IN IF cmp_display_item(new[i], orig[j + 1])
            THEN ReadsPastOrig(orig, new, i + 1, j + 1, oobEq)
            ELSE IF ks # {} THEN ReadsPastOrig(orig, new, i + 1, k + 1, oobEq)
            ELSE ReadsPastOrig(orig, new, i + 1, j, oobEq)

\* screen->pixels: ScreenW * ScreenH pixels, row after row.
BlankBuffer == [q \in 0..((ScreenW * ScreenH) - 1) |-> Stale]

\* The loops of do_update over the rows and runs of rect, from (xp, yp) on.
\* A run is written from pixmem32 = pixels + screen->w * ypos + xpos on.
RECURSIVE sim_scan(_, _, _, _, _)
sim_scan(st, its, xp, yp, rect) ==
    IF yp >= rect.y + rect.height THEN st
    ELSE IF xp >= rect.x + rect.width THEN sim_scan(st, its, rect.x, yp + 1, rect)
    ELSE LET r == draw_x("sdl", xp, yp, its)
             base == (ScreenW * yp) + xp
             n == Len(r.written)
         IN sim_scan([buf |-> [q \in DOMAIN st.buf |->
                                  IF q >= base /\ q < base + n
                                  THEN r.written[q - base + 1] ELSE st.buf[q]],
                      past |-> (st.past \/ base + n > ScreenW * ScreenH)],
                     its, xp + r.drawn_pixels, yp, rect)

Redraw(buf, its, rect) == sim_scan([buf |-> buf, past |-> FALSE], its, rect.x, rect.y, rect)

SInit ==
    /\ simPrev = <<>>
    /\ simOrig = <<>>
    /\ simBuf = BlankBuffer
    /\ simBefore = BlankBuffer
    /\ simDamage = NoDamage
    /\ simUpdates = 0
    /\ simPast = FALSE
    /\ simOobRead = FALSE
    /\ spc = "idle"

\* do_update up to "if (!damaged.valid)": the items are built from the list,
\* diffed against prev_items, and become the new prev_items.
SimDiff ==
    /\ spc = "idle"
    /\ simUpdates < MaxUpdates
    /\ \E l \in SimLists, oobEq \in SUBSET (1..3) :
          /\ simDamage' = dumb_diff(simPrev, l, oobEq)
          /\ simOobRead' = (Len(simPrev) # 0 /\ ReadsPastOrig(simPrev, l, 1, 0, oobEq))
          /\ simPrev' = l
    /\ simOrig' = simPrev
    /\ simBefore' = simBuf
    /\ simUpdates' = simUpdates + 1
    /\ spc' = "diffed"
    /\ UNCHANGED <<simBuf, simPast>>
    /\ UNCHANGED outsideS

\* Nothing damaged: the update is skipped.
SimSkip ==
    /\ spc = "diffed"
    /\ ~simDamage.valid
    /\ spc' = "idle"
    /\ UNCHANGED <<simPrev, simOrig, simBuf, simBefore, simDamage, simUpdates,
                   simPast, simOobRead>>
    /\ UNCHANGED outsideS

\* The damage is clipped to the screen and redrawn from the new items.
SimRedraw ==
    /\ spc = "diffed"
    /\ simDamage.valid
    /\ \E clipped \in {clip_rectangle(simDamage, ScreenRect)} :
          /\ simDamage' = clipped
          /\ \E st \in {Redraw(simBuf, simPrev, clipped)} :
                /\ simBuf' = st.buf
                /\ simPast' = (simPast \/ st.past)
    /\ spc' = "idle"
    /\ UNCHANGED <<simPrev, simOrig, simBefore, simUpdates, simOobRead>>
    /\ UNCHANGED outsideS

SNext == SimDiff \/ SimSkip \/ SimRedraw

(***************************************************************************)
(* PART 4: the memory-LCD driver (memory_display_driver.c): the polarity   *)
(* (VCOM) bit of the mode byte that starts every packet sent to the panel. *)
(***************************************************************************)
\* screen->h of the memory LCD: the number of scanline packets per update.
MemHeight == 240
\* Number of update commands the memory-LCD driver processes in one behaviour.
MaxFrames == 3

\* get_vcom: returns the current value of vcom and flips vcom between 0 and 0x2.
get_vcom(v) == [current_vcom |-> v, vcom |-> IF v = 0 THEN 2 ELSE 0]

\* buf[0] = 0x1 | get_vcom(): the write-line command bit and the polarity bit.
ModeByte(current_vcom) == 1 + current_vcom

\* The polarity bit (0x2) of a mode byte.
PolarityBit(mode) == ((mode \div 2) % 2) * 2

MInit ==
    /\ vcom = 0
    /\ mypos = 0
    /\ firstMode = <<>>
    /\ lastMode = 0
    /\ mpc = "idle"

\* do_update is entered for the next update command.
MemUpdate ==
    /\ mpc = "idle"
    /\ Len(firstMode) < MaxFrames
    /\ mypos' = 0
    /\ mpc' = "lines"
    /\ UNCHANGED <<vcom, firstMode, lastMode>>
    /\ UNCHANGED outsideM

\* One iteration of the scanline loop: the line is drawn, the packet header is
\* written with buf[0] = 0x1 | get_vcom(), and the packet is sent.
MemLine ==
    /\ mpc = "lines"
    /\ mypos < MemHeight
    /\ \E g \in {get_vcom(vcom)} :
          /\ vcom' = g.vcom
          /\ lastMode' = ModeByte(g.current_vcom)
          /\ firstMode' = IF mypos = 0 THEN Append(firstMode, ModeByte(g.current_vcom))
                          ELSE firstMode
    /\ mypos' = mypos + 1
    /\ UNCHANGED mpc
    /\ UNCHANGED outsideM

\* The last transfer is awaited and the bus released: do_update returns.
MemDone ==
    /\ mpc = "lines"
    /\ mypos >= MemHeight
    /\ mpc' = "idle"
    /\ UNCHANGED <<vcom, mypos, firstMode, lastMode>>
    /\ UNCHANGED outsideM

MNext == MemUpdate \/ MemLine \/ MemDone

(***************************************************************************)
(* PART 5: the e-paper driver (5in65_acep_7c_display_driver.c): the        *)
(* periodic clear pass, the pause between refreshes and the bus bracket.   *)
(***************************************************************************)
\* wait_some_time: if (delta < 2000), the pause between refreshes in ms.
RefreshWaitMs == 2000
\* maybe_refresh: spi->count_to_refresh = 5 after a clear pass.
RefreshPeriod == 5
\* wait_busy_level: vTaskDelay(100) between two reads of the busy line.
PollDelayTicks == 100
\* Number of update commands the e-paper driver processes in one behaviour.
MaxEpdUpdates == 7
\* portTICK_PERIOD_MS of the build: a 1000 Hz or a 100 Hz tick.
TickPeriods == {1, 10}
\* Time the caller lets pass between the completion of one update and the
\* next update call, in ms.
CallGaps == {0, 1995, RefreshWaitMs}
\* Duration of one transfer of all scanlines, in ms.
TransferMs == 40
\* Elapsed times are tracked up to this many ms.
EpdTimeCap == 2 * RefreshWaitMs

\* Elapsed time t after d more ms.
Later(t, d) == IF t + d > EpdTimeCap THEN EpdTimeCap ELSE t + d

\* The pc values at which wait_busy_level polls the busy line, with the level
\* waited for and the pc that follows.
EpdPolls == [init_wait      |-> [level |-> 1, next |-> "init_cmds"],
             cs_wait_on     |-> [level |-> 1, next |-> "cs_refresh"],
             cs_wait_done   |-> [level |-> 1, next |-> "cs_poweroff"],
             cs_wait_off    |-> [level |-> 0, next |-> "cs_return"],
             up_wait_on     |-> [level |-> 1, next |-> "up_refresh"],
             up_wait_done   |-> [level |-> 1, next |-> "up_poweroff"],
             up_wait_off    |-> [level |-> 0, next |-> "up_return"]]

\* A faulty variant: the clear pass is due only below zero.
RefreshDueStrict(c) == c < 0
\* maybe_refresh: if (spi->count_to_refresh <= 0).
RefreshDue(c) == c <= 0

\* wait_some_time: the number of ticks handed to vTaskDelay.
WaitTicks(delta, tick) ==
    IF delta < RefreshWaitMs THEN (RefreshWaitMs - delta) \div tick ELSE 0

\* vTaskDelay(n): the task is made ready by the n-th tick interrupt from now,
\* which comes after more than n - 1 and at most n tick periods.
DelayMs(n, tick) == IF n = 0 THEN {0} ELSE {(n - 1) * tick + 1, n * tick}

EInit ==
    /\ epc = "start"
    /\ tickMs \in TickPeriods
    /\ count_to_refresh = 0
    /\ sinceLast = 0
    /\ sincePrev = 0
    /\ busHeld = FALSE
    /\ pollBlocked = FALSE
    /\ epdUpdates = 0
    /\ epdLog = <<>>

\* display_spi_init up to the first wait: the GPIO options are read (an
\* invalid one ends initialization), the bus is acquired, the panel is reset.
EpdInit(ok) ==
    /\ epc = "start"
    /\ epc' = IF ok THEN "init_wait" ELSE "failed"
    /\ busHeld' = ok
    /\ UNCHANGED <<tickMs, count_to_refresh, sinceLast, sincePrev, pollBlocked,
                   epdUpdates, epdLog>>
    /\ UNCHANGED outsideE

\* wait_busy_level: the busy line is not at the level waited for, vTaskDelay(100).
EpdPollBlocked ==
    /\ epc \in DOMAIN EpdPolls
    /\ pollBlocked' = TRUE
    /\ sinceLast' = Later(sinceLast, PollDelayTicks * tickMs)
    /\ sincePrev' = Later(sincePrev, PollDelayTicks * tickMs)
    /\ UNCHANGED <<epc, tickMs, count_to_refresh, busHeld, epdUpdates, epdLog>>
    /\ UNCHANGED outsideE

\* wait_busy_level: the busy line is at the level waited for, the loop ends.
EpdPollDone ==
    /\ epc \in DOMAIN EpdPolls
    /\ epc' = EpdPolls[epc].next
    /\ pollBlocked' = FALSE
    /\ UNCHANGED <<tickMs, count_to_refresh, sinceLast, sincePrev, busHeld,
                   epdUpdates, epdLog>>
    /\ UNCHANGED outsideE

\* display_spi_init after the first wait: the panel registers are written, the
\* bus is released, the timestamp is taken and count_to_refresh is set to 0.
EpdInitDone ==
    /\ epc = "init_cmds"
    /\ busHeld' = FALSE
    /\ sinceLast' = 0
    /\ sincePrev' = 0
    /\ count_to_refresh' = 0
    /\ epc' = "idle"
    /\ UNCHANGED <<tickMs, pollBlocked, epdUpdates, epdLog>>
    /\ UNCHANGED outsideE

\* do_update is entered gap ms after the previous call completed.
\* maybe_refresh decrements count_to_refresh; when a refresh is due it calls
\* clear_screen, which acquires the bus and starts the transfer.
EpdUpdate(gap) ==
    /\ epc = "idle"
    /\ epdUpdates < MaxEpdUpdates
    /\ epdUpdates' = epdUpdates + 1
    /\ count_to_refresh' = count_to_refresh - 1
    /\ sinceLast' = Later(sinceLast, gap)
    /\ sincePrev' = Later(sincePrev, gap)
    /\ IF RefreshDue(count_to_refresh - 1)
       THEN /\ busHeld' = TRUE
            /\ epc' = "cs_transfer"
            /\ epdLog' = Append(epdLog, [n |-> epdUpdates + 1, what |-> "clear"])
       ELSE /\ epc' = "wait"
            /\ UNCHANGED <<busHeld, epdLog>>
    /\ UNCHANGED <<tickMs, pollBlocked>>
    /\ UNCHANGED outsideE

\* clear_screen and do_update: the scanlines are sent and the last transfer
\* awaited, then the power on command (0x04) is written.
EpdTransfer ==
    /\ epc \in {"cs_transfer", "up_transfer"}
    /\ epc' = IF epc = "cs_transfer" THEN "cs_wait_on" ELSE "up_wait_on"
    /\ sinceLast' = Later(sinceLast, TransferMs)
    /\ sincePrev' = Later(sincePrev, TransferMs)
    /\ UNCHANGED <<tickMs, count_to_refresh, busHeld, pollBlocked, epdUpdates, epdLog>>
    /\ UNCHANGED outsideE

\* The refresh command (0x12) is written.
EpdRefresh ==
    /\ epc \in {"cs_refresh", "up_refresh"}
    /\ epc' = IF epc = "cs_refresh" THEN "cs_wait_done" ELSE "up_wait_done"
    /\ UNCHANGED <<tickMs, count_to_refresh, sinceLast, sincePrev, busHeld,
                   pollBlocked, epdUpdates, epdLog>>
    /\ UNCHANGED outsideE

\* The power off command (0x02) is written and the bus is released.
EpdPowerOff ==
    /\ epc \in {"cs_poweroff", "up_poweroff"}
    /\ epc' = IF epc = "cs_poweroff" THEN "cs_wait_off" ELSE "up_wait_off"
    /\ busHeld' = FALSE
    /\ UNCHANGED <<tickMs, count_to_refresh, sinceLast, sincePrev, pollBlocked,
                   epdUpdates, epdLog>>
    /\ UNCHANGED outsideE

\* clear_screen returns to maybe_refresh: update_last_refresh_ts, and
\* count_to_refresh = 5.
EpdClearReturn ==
    /\ epc = "cs_return"
    /\ sinceLast' = 0
    /\ count_to_refresh' = RefreshPeriod
    /\ epc' = "wait"
    /\ UNCHANGED <<tickMs, sincePrev, busHeld, pollBlocked, epdUpdates, epdLog>>
    /\ UNCHANGED outsideE

\* wait_some_time, then do_update up to the update command (0x10): the items
\* are initialised, the bus is acquired and the transfer starts.
EpdWaitSomeTime ==
    /\ epc = "wait"
    /\ \E d \in DelayMs(WaitTicks(sinceLast, tickMs), tickMs) :
          /\ sinceLast' = Later(sinceLast, d)
          /\ sincePrev' = Later(sincePrev, d)
          /\ epdLog' = Append(epdLog, [n |-> epdUpdates, what |-> "update"])
    /\ busHeld' = TRUE
    /\ epc' = "up_transfer"
    /\ UNCHANGED <<tickMs, count_to_refresh, pollBlocked, epdUpdates>>
    /\ UNCHANGED outsideE

\* do_update returns: destroy_items and update_last_refresh_ts.
EpdUpdateReturn ==
    /\ epc = "up_return"
    /\ sinceLast' = 0
    /\ sincePrev' = 0
    /\ epc' = "idle"
    /\ UNCHANGED <<tickMs, count_to_refresh, busHeld, pollBlocked, epdUpdates, epdLog>>
    /\ UNCHANGED outsideE

ENext ==
    \/ \E ok \in BOOLEAN : EpdInit(ok)
    \/ EpdPollBlocked
    \/ EpdPollDone
    \/ EpdInitDone
    \/ \E gap \in CallGaps : EpdUpdate(gap)
    \/ EpdTransfer
    \/ EpdRefresh
    \/ EpdPowerOff
    \/ EpdClearReturn
    \/ EpdWaitSomeTime
    \/ EpdUpdateReturn

(***************************************************************************)
(* PART 6: the simulator's two threads (sdl_display/display.c): start-up   *)
(* of display_create_port and display_loop over ready_mutex and ready, the *)
(* commands of process_message other than update, and the input events.    *)
(***************************************************************************)
\* Processes that call the simulator.
Pids == {1, 2}
\* Number of commands process_message handles in one behaviour.
MaxCmds == 3
\* Number of input events display_loop handles in one behaviour.
MaxEvents == 2

\* The commands sent: subscribe_input in a tuple of arity 2 (the form the
\* arity test accepts) or 3, and a command process_message does not know.
SimCmdForms == {[cmd |-> "subscribe_input", arity |-> 2],
                [cmd |-> "subscribe_input", arity |-> 3],
                [cmd |-> "other", arity |-> 1]}

\* The word term_get_tuple_element(req, 2) reads. For a tuple of arity 2 it
\* lies past the last element: any term.
SourcesRead == {"all", "not_all"}

\* A faulty variant: the event is sent to every caller.
RecipientsAll(kp) == IF kp # 0 THEN Pids ELSE {}
\* send_keyboard_event / send_mouse_event: the processes the event is sent to.
Recipients(kp) == IF kp # 0 THEN {kp} ELSE {}

\* process_message, subscribe_input: whether the warning is printed.
Warns(kp, sources) == kp # 0 \/ sources # "all"

TInit ==
    /\ cpc = "create"
    /\ lpc = "none"
    /\ ready_mutex = "free"
    /\ surfaceSet = FALSE
    /\ screenSet = FALSE
    /\ theCtxSet = FALSE
    /\ keyboard_pid = 0
    /\ simCmds = <<>>
    /\ simEvents = <<>>
    /\ simDown = FALSE

\* display_create_port up to pthread_create: the event-loop thread exists.
CtorCreate ==
    /\ ~simDown /\ cpc = "create"
    /\ cpc' = "lock"
    /\ lpc' = "lock"
    /\ UNCHANGED <<ready_mutex, surfaceSet, screenSet, theCtxSet, keyboard_pid,
                   simCmds, simEvents, simDown>>
    /\ UNCHANGED outsideT

\* display_create_port: pthread_mutex_lock(&ready_mutex).
CtorLock ==
    /\ ~simDown /\ cpc = "lock" /\ ready_mutex = "free"
    /\ ready_mutex' = "ctor"
    /\ cpc' = "wait"
    /\ UNCHANGED <<lpc, surfaceSet, screenSet, theCtxSet, keyboard_pid,
                   simCmds, simEvents, simDown>>
    /\ UNCHANGED outsideT

\* pthread_cond_wait: the mutex is released and the thread waits on ready.
CtorWait ==
    /\ ~simDown /\ cpc = "wait"
    /\ ready_mutex' = "free"
    /\ cpc' = "waiting"
    /\ UNCHANGED <<lpc, surfaceSet, screenSet, theCtxSet, keyboard_pid,
                   simCmds, simEvents, simDown>>
    /\ UNCHANGED outsideT

\* pthread_cond_wait: a wakeup without a signal, which POSIX allows.
CtorSpuriousWakeup ==
    /\ ~simDown /\ cpc = "waiting"
    /\ cpc' = "woken"
    /\ UNCHANGED <<lpc, ready_mutex, surfaceSet, screenSet, theCtxSet,
                   keyboard_pid, simCmds, simEvents, simDown>>
    /\ UNCHANGED outsideT

\* pthread_cond_wait: the woken thread takes the mutex again and returns.
CtorReacquire ==
    /\ ~simDown /\ cpc = "woken" /\ ready_mutex = "free"
    /\ ready_mutex' = "ctor"
    /\ cpc' = "unlock"
    /\ UNCHANGED <<lpc, surfaceSet, screenSet, theCtxSet, keyboard_pid,
                   simCmds, simEvents, simDown>>
    /\ UNCHANGED outsideT

\* display_create_port: pthread_mutex_unlock, the_ctx = ctx, return ctx.
CtorReturn ==
    /\ ~simDown /\ cpc = "unlock"
    /\ ready_mutex' = "free"
    /\ theCtxSet' = TRUE
    /\ cpc' = "returned"
    /\ UNCHANGED <<lpc, surfaceSet, screenSet, keyboard_pid, simCmds,
                   simEvents, simDown>>
    /\ UNCHANGED outsideT

\* display_loop: pthread_mutex_lock(&ready_mutex).
LoopLock ==
    /\ ~simDown /\ lpc = "lock" /\ ready_mutex = "free"
    /\ ready_mutex' = "loop"
    /\ lpc' = "video"
    /\ UNCHANGED <<cpc, surfaceSet, screenSet, theCtxSet, keyboard_pid,
                   simCmds, simEvents, simDown>>
    /\ UNCHANGED outsideT

\* display_loop: SDL_Init and SDL_SetVideoMode; abort() when one of them fails.
LoopVideo(ok) ==
    /\ ~simDown /\ lpc = "video"
    /\ surfaceSet' = ok
    /\ simDown' = ~ok
    /\ lpc' = "lock_surface"
    /\ UNCHANGED <<cpc, ready_mutex, screenSet, theCtxSet, keyboard_pid,
                   simCmds, simEvents>>
    /\ UNCHANGED outsideT

\* display_loop: SDL_LockSurface; when it fails the thread returns NULL, with
\* ready_mutex still locked. Otherwise screen and its pixels are allocated
\* and filled and the surface is flipped.
LoopScreen(ok) ==
    /\ ~simDown /\ lpc = "lock_surface"
    /\ screenSet' = ok
    /\ lpc' = IF ok THEN "signal" ELSE "exited"
    /\ UNCHANGED <<cpc, ready_mutex, surfaceSet, theCtxSet, keyboard_pid,
                   simCmds, simEvents, simDown>>
    /\ UNCHANGED outsideT

\* display_loop: pthread_cond_signal(&ready) wakes the thread waiting on
\* ready, if there is one.
LoopSignal ==
    /\ ~simDown /\ lpc = "signal"
    /\ cpc' = IF cpc = "waiting" THEN "woken" ELSE cpc
    /\ lpc' = "unlock"
    /\ UNCHANGED <<ready_mutex, surfaceSet, screenSet, theCtxSet, keyboard_pid,
                   simCmds, simEvents, simDown>>
    /\ UNCHANGED outsideT

\* display_loop: pthread_mutex_unlock, then the SDL_WaitEvent loop.
LoopUnlock ==
    /\ ~simDown /\ lpc = "unlock"
    /\ ready_mutex' = "free"
    /\ lpc' = "events"
    /\ UNCHANGED <<cpc, surfaceSet, screenSet, theCtxSet, keyboard_pid,
                   simCmds, simEvents, simDown>>
    /\ UNCHANGED outsideT

\* display_loop: one keyboard or mouse event. send_keyboard_event reads
\* ctx->global of the_ctx, then sends the event to keyboard_pid if it is set.
LoopEvent ==
    /\ ~simDown /\ lpc = "events"
    /\ Len(simEvents) < MaxEvents
    /\ IF theCtxSet
       THEN /\ simEvents' = Append(simEvents, Recipients(keyboard_pid))
            /\ UNCHANGED simDown
       ELSE /\ simDown' = TRUE
            /\ UNCHANGED simEvents
    /\ UNCHANGED <<cpc, lpc, ready_mutex, surfaceSet, screenSet, theCtxSet,
                   keyboard_pid, simCmds>>
    /\ UNCHANGED outsideT

\* process_message for a command other than update, sent by process pid to
\* the port display_create_port returned. SDL_MUSTLOCK reads surface; when
\* SDL_LockSurface fails the function returns at once; a subscribe_input
\* tuple whose arity is not 2 goes to invalid_message; subscribe_input prints
\* the warning or not and sets keyboard_pid; then {Ref, ok} is sent.
SimCommand(form, pid, locked, sources) ==
    /\ ~simDown /\ cpc = "returned"
    /\ Len(simCmds) < MaxCmds
    /\ IF ~surfaceSet
       THEN /\ simDown' = TRUE
            /\ UNCHANGED <<keyboard_pid, simCmds>>
       ELSE /\ UNCHANGED simDown
            /\ \E dispatched \in {locked /\ form.arity >= 1} :
               \E subscribed \in {dispatched /\ form.cmd = "subscribe_input"
                                     /\ form.arity = 2} :
                  /\ keyboard_pid' = IF subscribed THEN pid ELSE keyboard_pid
                  /\ simCmds' = Append(simCmds,
                        [cmd |-> form.cmd, arity |-> form.arity, pid |-> pid,
                         before |-> keyboard_pid,
                         locked |-> locked,
                         warned |-> subscribed /\ Warns(keyboard_pid, sources),
                         ok |-> IF dispatched /\ (form.cmd # "subscribe_input" \/ subscribed)
                                THEN 1 ELSE 0])
    /\ UNCHANGED <<cpc, lpc, ready_mutex, surfaceSet, screenSet, theCtxSet, simEvents>>
    /\ UNCHANGED outsideT

TNext ==
    \/ CtorCreate
    \/ CtorLock
    \/ CtorWait
    \/ CtorSpuriousWakeup
    \/ CtorReacquire
    \/ CtorReturn
    \/ LoopLock
    \/ \E ok \in BOOLEAN : LoopVideo(ok)
    \/ \E ok \in BOOLEAN : LoopScreen(ok)
    \/ LoopSignal
    \/ LoopUnlock
    \/ LoopEvent
    \/ \E form \in SimCmdForms, pid \in Pids, locked \in BOOLEAN, sources \in SourcesRead :
          SimCommand(form, pid, locked, sources)

TIdle == TInit

(***************************************************************************)
(* PART 7: decoding of the display list (display_items.h): init_item fills *)
(* the array do_update got from malloc, then the scanline loop runs on it. *)
(***************************************************************************)
\* Number of entries of a display list.
MaxEntries == 3

\* The rasterizer that runs on the decoded items.
DecFamily == "ili948x"

\* Entries init_item decodes completely: {rect, X, Y, W, H, Color} and
\* {image, X, Y, transparent, {rgba8888, W, H, Pix}}.
GoodEntries ==
    {[cmd |-> cp[1], x |-> g[1], y |-> g[2], width |-> g[3], height |-> g[4],
      brcolor |-> cp[2], format |-> "rgba8888", pix |-> cp[3], text_ok |-> TRUE] :
        g \in {<<0, 0, 3, 2>>, <<1, 0, 2, 1>>},
        cp \in {<<"rect", White, "none">>, <<"rect", Black, "none">>,
                <<"image", NoColor, "solid">>}}

\* Entries init_item cannot decode: a tuple whose first element is not a known
\* primitive, an image whose format is not rgba8888, and a text whose string
\* interop_term_to_string rejects.
BadEntries ==
    {[cmd |-> "bogus", x |-> 0, y |-> 0, width |-> 0, height |-> 0,
      brcolor |-> NoColor, format |-> "rgba8888", pix |-> "none", text_ok |-> TRUE]}
    \cup
    {[cmd |-> "image", x |-> gx, y |-> 0, width |-> 2, height |-> 1,
      brcolor |-> c, format |-> "rgb565", pix |-> "solid", text_ok |-> TRUE] :
        gx \in {0, 1}, c \in {NoColor, Grey}}
    \cup
    {[cmd |-> "text", x |-> 1, y |-> 0, width |-> 0, height |-> 0,
      brcolor |-> NoColor, format |-> "rgba8888", pix |-> "none", text_ok |-> FALSE]}

Undecodable(e) == e \in BadEntries

\* Display lists of up to MaxEntries entries, at most one of them undecodable.
EntryLists ==
    UNION {{l \in [1..n -> GoodEntries \cup BadEntries] :
               Cardinality({i \in 1..n : Undecodable(l[i])}) <= 1} :
           n \in 0..MaxEntries}

\* What an element of the array malloc returned may hold before init_item
\* writes to it: malloc does not clear the memory.
GarbageItems ==
    {[primitive |-> pr, x |-> 0, y |-> 0, width |-> s[1], height |-> s[2],
      brcolor |-> c, pix |-> "solid"] :
        pr \in {"Invalid", "Rect", "Image"}, s \in {<<0, 0>>, <<3, 2>>},
        c \in {NoColor, Black}}

\* init_item: the fields it assigns for entry e, over what the element held.
init_item(held, e) ==
    CASE e.cmd = "image" ->
            IF e.format # "rgba8888"
            THEN [held EXCEPT !.primitive = "Image", !.x = e.x, !.y = e.y,
                              !.brcolor = e.brcolor]
            ELSE [primitive |-> "Image", x |-> e.x, y |-> e.y, width |-> e.width,
                  height |-> e.height, brcolor |-> e.brcolor, pix |-> e.pix]
      [] e.cmd = "rect" ->
            [held EXCEPT !.primitive = "Rect", !.x = e.x, !.y = e.y,
                         !.width = e.width, !.height = e.height,
                         !.brcolor = e.brcolor]
      [] e.cmd = "text" /\ ~e.text_ok ->
            [held EXCEPT !.x = e.x, !.y = e.y]
      [] OTHER ->
            [held EXCEPT !.primitive = "Invalid", !.x = 0 - 1, !.y = 0 - 1,
                         !.width = 1, !.height = 1]

\* The scanline loops of do_update from (xp, yp) on: the frame they leave.
RECURSIVE dec_scan(_, _, _, _)
dec_scan(fr, its, xp, yp) ==
    IF yp >= ScreenH THEN fr
    ELSE IF xp >= ScreenW THEN dec_scan(fr, its, 0, yp + 1)
    ELSE LET r == draw_x(DecFamily, xp, yp, its)
         IN dec_scan([p \in DOMAIN fr |->
                         IF p[2] = yp /\ p[1] >= xp /\ p[1] < xp + Len(r.written)
                         THEN r.written[p[1] - xp + 1] ELSE fr[p]],
                     its, xp + r.drawn_pixels, yp)

Rasterize(its) == dec_scan(BlankFrame, its, 0, 0)

\* An image item whose pix init_item left unwritten and that is the first
\* item of the array to cover some pixel of the screen: draw_image_x reads
\* through the pointer the element happened to hold.
ReadsStalePix(l, its) ==
    \E i \in 1..Len(its) :
        /\ Undecodable(l[i])
        /\ its[i].primitive = "Image"
        /\ \E p \in (0..(ScreenW - 1)) \X (0..(ScreenH - 1)) :
              /\ Covers(its[i], p[1], p[2])
              /\ \A j \in 1..(i - 1) : ~Covers(its[j], p[1], p[2])

DInit ==
    /\ dpc = "idle"
    /\ dList = <<>>
    /\ dItems = <<>>
    /\ dFrame = BlankFrame

\* do_update is entered with a display list; the items array is allocated.
DecUpdate ==
    /\ dpc = "idle"
    /\ \E l \in EntryLists : dList' = l
    /\ dItems' = <<>>
    /\ dpc' = "init"
    /\ UNCHANGED dFrame
    /\ UNCHANGED outsideD

\* One iteration of the loop over the list: init_item(&items[i], ...).
DecInitItem ==
    /\ dpc = "init"
    /\ Len(dItems) < Len(dList)
    /\ \E held \in GarbageItems :
          dItems' = Append(dItems, init_item(held, dList[Len(dItems) + 1]))
    /\ UNCHANGED <<dpc, dList, dFrame>>
    /\ UNCHANGED outsideD

\* The scanline loop runs over the whole screen and do_update returns.
DecRasterize ==
    /\ dpc = "init"
    /\ Len(dItems) = Len(dList)
    /\ dFrame' = Rasterize(dItems)
    /\ dpc' = "done"
    /\ UNCHANGED <<dList, dItems>>
    /\ UNCHANGED outsideD

\* The scanline loop reads image pixels through a pointer that was never
\* set and that does not address readable memory: the task faults.
DecFault ==
    /\ dpc = "init"
    /\ Len(dItems) = Len(dList)
    /\ ReadsStalePix(dList, dItems)
    /\ dpc' = "fault"
    /\ UNCHANGED <<dList, dItems, dFrame>>
    /\ UNCHANGED outsideD

DNext == DecUpdate \/ DecInitItem \/ DecRasterize \/ DecFault

DIdle == DInit

(***************************************************************************)
(* PART 8: initialization of the ILI948x driver (display_init of           *)
(* ili948x_display_driver.c with spi_display.c and display_common.c).      *)
(***************************************************************************)
\* The option lists display_init is given. A pin is an integer or absent,
\* compatible is one of the two supported strings, another string or absent,
\* color_order is absent, rgb, bgr or something else, rotation is an integer
\* (absent gives 0) or another term, enable_tft_invon is true, false (also
\* when absent) or another term.
InitOptions ==
    [spi_cs_gpio : {"absent", "pin"},
     dc : {"absent", "pin"},
     reset : {"absent", "pin"},
     compatible : {"absent", "ilitek,ili9486", "ilitek,ili9488", "other"},
     color_order : {"absent", "rgb", "bgr", "other"},
     rotation : {"integer", "other"},
     enable_tft_invon : {"true", "false", "other"}]

NoOptions ==
    [spi_cs_gpio |-> "absent", dc |-> "absent", reset |-> "absent",
     compatible |-> "absent", color_order |-> "absent", rotation |-> "integer",
     enable_tft_invon |-> "false"]

\* spi_display_parse_config: false when spi_cs_gpio is absent.
spi_display_parse_config(opts) == opts.spi_cs_gpio # "absent"

\* display_common_gpio_from_opts: false when the pin is absent.
display_common_gpio_from_opts(pin) == pin # "absent"

\* display_init: the value of ok when it is tested.
InitOk(opts) ==
    /\ display_common_gpio_from_opts(opts.dc)
    /\ display_common_gpio_from_opts(opts.reset)
    /\ opts.compatible \in {"ilitek,ili9486", "ilitek,ili9488"}
    /\ opts.color_order \in {"absent", "rgb", "bgr"}
    /\ opts.rotation = "integer"
    /\ opts.enable_tft_invon \in {"true", "false"}

IInit ==
    /\ ipc = "start"
    /\ iopts = NoOptions
    /\ cs_gpio = "unset"
    /\ deviceAdded = FALSE
    /\ busUses = 0
    /\ errorLogged = FALSE
    /\ workerStarted = FALSE

\* display_init up to spi_display_init: the queue is created, the config is
\* cleared (cs_gpio = 0) and parsed, its result is not looked at, and the
\* device is added to the bus with that chip select.
InitSpi(opts) ==
    /\ ipc = "start"
    /\ iopts' = opts
    /\ cs_gpio' = IF spi_display_parse_config(opts) THEN "pin" ELSE "zero"
    /\ deviceAdded' = TRUE
    /\ ipc' = "options"
    /\ UNCHANGED <<busUses, errorLogged, workerStarted>>
    /\ UNCHANGED outsideI

\* display_init: the remaining options are read and ok is tested.
InitValidate ==
    /\ ipc = "options"
    /\ IF InitOk(iopts)
       THEN /\ ipc' = "reset"
            /\ UNCHANGED errorLogged
       ELSE /\ ipc' = "aborted"
            /\ errorLogged' = TRUE
    /\ UNCHANGED <<iopts, cs_gpio, deviceAdded, busUses, workerStarted>>
    /\ UNCHANGED outsideI

\* display_init: the buffers are allocated and the panel is reset with the
\* bus acquired.
InitReset ==
    /\ ipc = "reset"
    /\ busUses' = busUses + 1
    /\ ipc' = "panel"
    /\ UNCHANGED <<iopts, cs_gpio, deviceAdded, errorLogged, workerStarted>>
    /\ UNCHANGED outsideI

\* display_init: the register writes from SWRESET to set_rotation.
InitPanel ==
    /\ ipc = "panel"
    /\ busUses' = busUses + 1
    /\ ipc' = "task"
    /\ UNCHANGED <<iopts, cs_gpio, deviceAdded, errorLogged, workerStarted>>
    /\ UNCHANGED outsideI

\* display_init: the backlight is set up and the worker task is created.
InitTask ==
    /\ ipc = "task"
    /\ workerStarted' = TRUE
    /\ ipc' = "running"
    /\ UNCHANGED <<iopts, cs_gpio, deviceAdded, busUses, errorLogged>>
    /\ UNCHANGED outsideI

INext ==
    \/ \E opts \in InitOptions : InitSpi(opts)
    \/ InitValidate
    \/ InitReset
    \/ InitPanel
    \/ InitTask

IIdle == IInit

(***************************************************************************)
(* PART 9: the legacy dispatch generation (process_message and             *)
(* display_callback of memory_display_driver.c and                         *)
(* ili934x_display_driver.c). The worker stores a PendingReply and posts   *)
(* an event; the event step of the scheduler calls display_callback, which *)
(* sends one reply.                                                        *)
(***************************************************************************)
\* Number of commands the worker processes.
MaxLegacyCmds == 4

\* Entries of spi->replies_queue (xQueueCreate(32, ...) in the drivers).
RepliesQueueLength == 2

\* Entries of the event queue of the platform.
EventQueueLength == 2

LegacyDrivers == {"memory", "ili934x"}

\* The requests process_message tells apart: update, draw_buffer (a branch
\* of its own only in the ILI934x driver) and anything else.
LegacyCmdForms == {"update", "draw_buffer", "other"}

\* process_message: whether it goes on to store a PendingReply. The
\* draw_buffer branch of the ILI934x driver returns before that.
RequiresReply(d, cmd) == ~(d = "ili934x" /\ cmd = "draw_buffer")

\* The commands processed so far that store a PendingReply.
ReplyingCmds ==
    {i \in 1..Len(legacyCmds) : RequiresReply(legacy_driver, legacyCmds[i])}

LInit ==
    /\ legacy_driver \in LegacyDrivers
    /\ legacy_pc = "receive"
    /\ legacyCmds = <<>>
    /\ replies_queue = <<>>
    /\ event_queue = 0
    /\ repliesSent = [i \in 1..MaxLegacyCmds |-> 0]
    /\ repliesLost = {}

\* process_message up to xQueueSend(spi->replies_queue, &pending, 1): the
\* command is carried out, then the PendingReply is stored when the queue has
\* room; when it is still full after one tick the send fails and its result
\* is not looked at.
LegacyProcess(cmd) ==
    /\ legacy_pc = "receive"
    /\ Len(legacyCmds) < MaxLegacyCmds
    /\ legacyCmds' = Append(legacyCmds, cmd)
    /\ IF ~RequiresReply(legacy_driver, cmd)
       THEN UNCHANGED <<legacy_pc, replies_queue, repliesLost>>
       ELSE /\ legacy_pc' = "notify"
            /\ IF Len(replies_queue) < RepliesQueueLength
               THEN /\ replies_queue' = Append(replies_queue, Len(legacyCmds) + 1)
                    /\ UNCHANGED repliesLost
               ELSE /\ repliesLost' = repliesLost \cup {Len(legacyCmds) + 1}
                    /\ UNCHANGED replies_queue
    /\ UNCHANGED <<legacy_driver, event_queue, repliesSent>>
    /\ UNCHANGED outsideL

\* process_message, xQueueSend(event_queue, &spi, 1): the event is posted
\* when event_queue has room within one tick, and dropped otherwise.
LegacyNotify ==
    /\ legacy_pc = "notify"
    /\ event_queue' = IF event_queue < EventQueueLength
                      THEN event_queue + 1 ELSE event_queue
    /\ legacy_pc' = "receive"
    /\ UNCHANGED <<legacy_driver, legacyCmds, replies_queue, repliesSent, repliesLost>>
    /\ UNCHANGED outsideL

\* The event step: one event is taken from event_queue and display_callback
\* runs once; it receives at most one PendingReply and sends its reply.
LegacyEvent ==
    /\ event_queue > 0
    /\ event_queue' = event_queue - 1
    /\ IF replies_queue # <<>>
       THEN /\ repliesSent' = [repliesSent EXCEPT ![Head(replies_queue)] = @ + 1]
            /\ replies_queue' = Tail(replies_queue)
       ELSE UNCHANGED <<repliesSent, replies_queue>>
    /\ UNCHANGED <<legacy_driver, legacy_pc, legacyCmds, repliesLost>>
    /\ UNCHANGED outsideL

LNext ==
    \/ \E cmd \in LegacyCmdForms : LegacyProcess(cmd)
    \/ LegacyNotify
    \/ LegacyEvent

LIdle == LInit /\ legacy_driver = "memory"

(***************************************************************************)
(* PART 10: the OLED update (do_update of ssd1306_display_driver.c with    *)
(* monochrome.h): every scanline is rasterized into a bit buffer, eight    *)
(* scanlines are packed into one page, and each page is written over I2C.  *)
(***************************************************************************)
\* Bytes of one scanline (DISPLAY_WIDTH / 8, 16 on the panel).
OledLineBytes == 1

\* Pages of the panel (PAGES_NUM, 8 on the panel).
OledPages == 2

PAGE_HEIGHT == 8
DISPLAY_WIDTH == 8 * OledLineBytes
DISPLAY_HEIGHT == PAGE_HEIGHT * OledPages

DisplayTypes == {"DISPLAY_SSD1306", "DISPLAY_SSD1315", "DISPLAY_SH1106"}

\* Rect colours, as init_item stores them (alpha byte 0xFF).
GreyOf(v) == <<v, v, v, 255>>
OledColors ==
    {White, Black, Grey, GreyOf(99), GreyOf(100), GreyOf(128), GreyOf(159),
     GreyOf(160), <<255, 0, 0, 255>>, <<0, 255, 0, 255>>}

OledRect(x, y, w, h, c) ==
    [primitive |-> "Rect", x |-> x, y |-> y, width |-> w, height |-> h,
     brcolor |-> c, pix |-> "none"]

FullScreenRect(c) == OledRect(0, 0, DISPLAY_WIDTH, DISPLAY_HEIGHT, c)

\* The display lists of the model: empty, or one Rect that covers the whole
\* screen, its first three scanlines, or a block across the page boundary.
OledLists ==
    {<<>>} \cup {<<FullScreenRect(c)>> : c \in OledColors}
           \cup {<<OledRect(0, 0, DISPLAY_WIDTH, 3, c)>> : c \in OledColors}
           \cup {<<OledRect(2, 5, 3, 6, c)>> : c \in OledColors}

Pow2(n) == IF n = 0 THEN 1 ELSE IF n = 1 THEN 2 ELSE IF n = 2 THEN 4
           ELSE IF n = 3 THEN 8 ELSE IF n = 4 THEN 16 ELSE IF n = 5 THEN 32
           ELSE IF n = 6 THEN 64 ELSE 128

\* (byte >> n) & 1
BitOf(byte, n) == (byte \div Pow2(n)) % 2

\* draw_pixel_x: bit xpos % 8 of line_buf[xpos / 8] becomes color.
draw_pixel_x(line, xp, color) ==
    LET bpos == xp % 8
        old == line[(xp \div 8) + 1]
    IN [line EXCEPT ![(xp \div 8) + 1] =
           (old - (BitOf(old, bpos) * Pow2(bpos))) + (color * Pow2(bpos))]

\* The stores of one draw function: written[k] goes to position xp + k - 1.
RECURSIVE draw_pixels(_, _, _)
draw_pixels(line, xp, written) ==
    IF written = <<>> THEN line
    ELSE draw_pixels(draw_pixel_x(line, xp, Head(written)), xp + 1, Tail(written))

\* find_max_line_len of monochrome.h with the width of this panel.
oled_find_max_line_len(its, count, xp, yp) ==
    LET line_len == DISPLAY_WIDTH - xp
        ahead == {its[i].x - xp : i \in {j \in 1..count :
                     /\ xp < its[j].x
                     /\ yp >= its[j].y
                     /\ yp < its[j].y + its[j].height}}
        lens == ahead \cup {line_len}
    IN CHOOSE m \in lens : \A o \in lens : m <= o

\* draw_x from item index i on, for lists of Rect items.
RECURSIVE oled_draw_x_from(_, _, _, _, _)
oled_draw_x_from(i, below, xp, yp, its) ==
    IF i > Len(its) THEN [drawn_pixels |-> 1, written |-> <<>>]
    ELSE IF ~Covers(its[i], xp, yp) THEN oled_draw_x_from(i + 1, below, xp, yp, its)
    ELSE LET max_line_len == IF below THEN 1
                             ELSE oled_find_max_line_len(its, i - 1, xp, yp)
             w == IF its[i].primitive = "Rect"
                  THEN draw_rect_x("monochrome", xp, yp, max_line_len, its[i])
                  ELSE <<>>
         IN IF Len(w) # 0 THEN [drawn_pixels |-> Len(w), written |-> w]
            ELSE oled_draw_x_from(i + 1, TRUE, xp, yp, its)

\* do_update: "while (xpos < screen_width)" on one scanline, from xp on.
RECURSIVE oled_scanline(_, _, _, _)
oled_scanline(line, xp, yp, its) ==
    IF xp >= DISPLAY_WIDTH THEN line
    ELSE LET r == oled_draw_x_from(1, FALSE, xp, yp, its)
         IN oled_scanline(draw_pixels(line, xp, r.written), xp + r.drawn_pixels,
                          yp, its)

\* A faulty variant: every scanline is packed into bit 0 of the page bytes.
pack_scanline_bit0(out, line, yp) ==
    [i \in 1..DISPLAY_WIDTH |->
        IF BitOf(line[((i - 1) \div 8) + 1], (i - 1) % 8) = 1 /\ BitOf(out[i], 0) = 0
        THEN out[i] + 1 ELSE out[i]]

\* do_update: out_buf[i] |= ((buf[i / 8] >> (i % 8)) & 1) << (ypos % 8).
pack_scanline(out, line, yp) ==
    [i \in 1..DISPLAY_WIDTH |->
        IF /\ BitOf(line[((i - 1) \div 8) + 1], (i - 1) % 8) = 1
           /\ BitOf(out[i], yp % 8) = 0
        THEN out[i] + Pow2(yp % 8) ELSE out[i]]

\* memset(buf, 0, memsize), as seen through the two regions of buf in use.
ZeroLine == [i \in 1..OledLineBytes |-> 0]
ZeroPage == [i \in 1..DISPLAY_WIDTH |-> 0]

\* The bytes of one page write after the I2C address: the page address
\* command, the column reset of SSD1315 and SH1106, the data stream marker,
\* the two filler bytes of SH1106 and the DISPLAY_WIDTH bytes of out_buf.
PageWrite(type, yp, out) ==
    [page |-> yp \div 8,
     column_reset |-> type \in {"DISPLAY_SH1106", "DISPLAY_SSD1315"},
     filler |-> IF type = "DISPLAY_SH1106" THEN <<0, 0>> ELSE <<>>,
     data |-> out]

OInit ==
    /\ opc = "idle"
    /\ oledType \in DisplayTypes
    /\ oledItems = <<>>
    /\ oledYpos = 0
    /\ oledLine = ZeroLine
    /\ out_buf = ZeroPage
    /\ i2cHeld = FALSE
    /\ pageWrites = <<>>

\* do_update up to the scanline loop: the items are decoded, buf is
\* allocated and cleared, and the I2C peripheral is acquired; when that fails
\* do_update prints "Invalid I2C peripheral" and returns.
OledUpdate(l, acquired) ==
    /\ opc = "idle"
    /\ oledItems' = l
    /\ oledYpos' = 0
    /\ oledLine' = ZeroLine
    /\ out_buf' = ZeroPage
    /\ pageWrites' = <<>>
    /\ i2cHeld' = acquired
    /\ opc' = IF acquired THEN "lines" ELSE "returned"
    /\ UNCHANGED oledType
    /\ UNCHANGED outsideO

\* One iteration of "for (ypos = 0; ypos < screen_height; ypos++)": the
\* scanline is drawn and packed; on the last scanline of a page the page is
\* written and buf is cleared.
OledScanline ==
    /\ opc = "lines"
    /\ oledYpos < DISPLAY_HEIGHT
    /\ \E line \in {oled_scanline(oledLine, 0, oledYpos, oledItems)} :
       \E out \in {pack_scanline(out_buf, line, oledYpos)} :
          IF (oledYpos % PAGE_HEIGHT) = (PAGE_HEIGHT - 1)
          THEN /\ pageWrites' = Append(pageWrites, PageWrite(oledType, oledYpos, out))
               /\ oledLine' = ZeroLine
               /\ out_buf' = ZeroPage
          ELSE /\ oledLine' = line
               /\ out_buf' = out
               /\ UNCHANGED pageWrites
    /\ oledYpos' = oledYpos + 1
    /\ UNCHANGED <<opc, oledType, oledItems, i2cHeld>>
    /\ UNCHANGED outsideO

\* do_update after the loop: the peripheral is released, buf and the items
\* are freed.
OledRelease ==
    /\ opc = "lines"
    /\ oledYpos >= DISPLAY_HEIGHT
    /\ i2cHeld' = FALSE
    /\ opc' = "done"
    /\ UNCHANGED <<oledType, oledItems, oledYpos, oledLine, out_buf, pageWrites>>
    /\ UNCHANGED outsideO

ONext ==
    \/ \E l \in OledLists, acquired \in BOOLEAN : OledUpdate(l, acquired)
    \/ OledScanline
    \/ OledRelease

OIdle == OInit /\ oledType = "DISPLAY_SSD1306"

(***************************************************************************)
(* PART 11: the allocations of the simulator (do_update and                *)
(* process_message of sdl_display/display.c): the item array and the       *)
(* message of an update are kept in prev_items and prev_message until the  *)
(* next update.                                                            *)
(***************************************************************************)
\* Number of messages the simulator takes from its mailbox.
MaxSimMsgs == 4

\* The messages process_message tells apart: not a gen_server call or a
\* request that is no tuple, an update with an empty or a non-empty list,
\* subscribe_input with arity 2 or another arity, register_font, any other.
SimMsgKinds ==
    {"invalid", "update_empty", "update", "subscribe_input", "subscribe_arity",
     "register_font", "other"}

IsUpdate(kind) == kind \in {"update_empty", "update"}

\* A faulty variant: free_msg_and_exit destroys every message.
KeepsNoMessage(prev, message) == FALSE

\* free_msg_and_exit: "if (prev_message != message)" keeps the message.
KeepsMessage(prev, message) == prev = message

AInit ==
    /\ apc = "idle"
    /\ simMessage = 0
    /\ msgKinds = <<>>
    /\ msgFrees = [n \in 1..MaxSimMsgs |-> 0]
    /\ itemsBuilt = {}
    /\ itemsFrees = [n \in 1..MaxSimMsgs |-> 0]
    /\ prev_items = 0
    /\ prev_items_len = 0
    /\ prev_message = 0
    /\ freedRead = FALSE

\* process_message up to the dispatch on cmd: the message is taken from the
\* mailbox and parsed; an invalid one goes to invalid_message.
AllocTake(kind) ==
    /\ apc = "idle"
    /\ Len(msgKinds) < MaxSimMsgs
    /\ msgKinds' = Append(msgKinds, kind)
    /\ simMessage' = Len(msgKinds) + 1
    /\ apc' = CASE kind = "invalid" -> "exit"
                [] IsUpdate(kind) -> "build"
                [] kind = "subscribe_arity" -> "exit"
                [] OTHER -> "reply"
    /\ UNCHANGED <<msgFrees, itemsBuilt, itemsFrees, prev_items, prev_items_len,
                   prev_message, freedRead>>
    /\ UNCHANGED outsideA

\* do_update: the item array is allocated and filled from the list, whose
\* images point into the message.
AllocBuild ==
    /\ apc = "build"
    /\ itemsBuilt' = itemsBuilt \cup {simMessage}
    /\ freedRead' = (freedRead \/ msgFrees[simMessage] > 0)
    /\ apc' = "diff"
    /\ UNCHANGED <<simMessage, msgKinds, msgFrees, itemsFrees, prev_items,
                   prev_items_len, prev_message>>
    /\ UNCHANGED outsideA

\* do_update: dumb_diff reads the previous item array when prev_items_len is
\* not 0, and the new one.
AllocDiff ==
    /\ apc = "diff"
    /\ freedRead' = (\/ freedRead
                     \/ itemsFrees[simMessage] > 0
                     \/ (prev_items_len # 0 /\ itemsFrees[prev_items] > 0))
    /\ apc' = "destroy"
    /\ UNCHANGED <<simMessage, msgKinds, msgFrees, itemsBuilt, itemsFrees,
                   prev_items, prev_items_len, prev_message>>
    /\ UNCHANGED outsideA

\* do_update: "if (prev_items)" destroys the previous item array and the
\* previous message, then prev_items becomes the new array.
AllocDestroyPrev ==
    /\ apc = "destroy"
    /\ IF prev_items # 0
       THEN /\ itemsFrees' = [itemsFrees EXCEPT ![prev_items] = @ + 1]
            /\ msgFrees' = [msgFrees EXCEPT ![prev_message] = @ + 1]
            /\ freedRead' = (freedRead \/ itemsFrees[prev_items] > 0)
       ELSE UNCHANGED <<itemsFrees, msgFrees, freedRead>>
    /\ prev_items' = simMessage
    /\ prev_items_len' = IF msgKinds[simMessage] = "update" THEN 1 ELSE 0
    /\ apc' = "redraw"
    /\ UNCHANGED <<simMessage, msgKinds, itemsBuilt, prev_message>>
    /\ UNCHANGED outsideA

\* do_update: the damage is redrawn from the new items and the image data
\* in their message; back in process_message, prev_message becomes the
\* message and the screen is copied to the surface.
AllocRedraw ==
    /\ apc = "redraw"
    /\ freedRead' = (freedRead \/ itemsFrees[simMessage] > 0
                               \/ msgFrees[simMessage] > 0)
    /\ prev_message' = simMessage
    /\ apc' = "reply"
    /\ UNCHANGED <<simMessage, msgKinds, msgFrees, itemsBuilt, itemsFrees,
                   prev_items, prev_items_len>>
    /\ UNCHANGED outsideA

\* process_message: the surface is flipped and {Ref, ok} is sent from the
\* pid and ref read out of the message.
AllocReply ==
    /\ apc = "reply"
    /\ freedRead' = (freedRead \/ msgFrees[simMessage] > 0)
    /\ apc' = "exit"
    /\ UNCHANGED <<simMessage, msgKinds, msgFrees, itemsBuilt, itemsFrees,
                   prev_items, prev_items_len, prev_message>>
    /\ UNCHANGED outsideA

\* free_msg_and_exit.
AllocExit ==
    /\ apc = "exit"
    /\ msgFrees' = IF KeepsMessage(prev_message, simMessage) THEN msgFrees
                   ELSE [msgFrees EXCEPT ![simMessage] = @ + 1]
    /\ simMessage' = 0
    /\ apc' = "idle"
    /\ UNCHANGED <<msgKinds, itemsBuilt, itemsFrees, prev_items, prev_items_len,
                   prev_message, freedRead>>
    /\ UNCHANGED outsideA

ANext ==
    \/ \E kind \in SimMsgKinds : AllocTake(kind)
    \/ AllocBuild
    \/ AllocDiff
    \/ AllocDestroyPrev
    \/ AllocRedraw
    \/ AllocReply
    \/ AllocExit

AIdle == AInit

(***************************************************************************)
(* PART 12: the queued SPI transfers of the ILI948x driver (do_update and  *)
(* draw_buffer of ili948x_display_driver.c, spi_display_dmawrite of        *)
(* spi_display.c). spi_device_queue_trans hands a buffer to the SPI master, *)
(* which sends it on its own; spi_device_get_trans_result waits for the    *)
(* oldest queued transfer to be finished.                                  *)
(***************************************************************************)
\* Scanlines of the screen (screen->h).
DmaLines == 3

\* dmawrite calls of one draw_buffer.
MaxChunks == 2

\* Commands the worker runs.
MaxDmaCmds == 2

\* The other one of the two buffers swapped after every scanline.
OtherBuffer(b) ==
    CASE b = "pixels_a" -> "pixels_b"
      [] b = "pixels_b" -> "pixels_a"
      [] b = "bytes_a" -> "bytes_b"
      [] OTHER -> "bytes_a"

\* The buffers among the queued transfers the SPI master has not finished.
Sending == {queued[k] : k \in (hwDone + 1)..Len(queued)}

\* The buffers of the transfers that have not been awaited.
Unawaited == {queued[k] : k \in 1..Len(queued)}

BInit ==
    /\ bpc = "idle"
    /\ is_ili9488 \in BOOLEAN
    /\ dmaCmds = 0
    /\ dmaLine = 0
    /\ dmaChunks = 0
    /\ pixels = "pixels_a"
    /\ bytes = "bytes_a"
    /\ transaction_in_progress = FALSE
    /\ queued = <<>>
    /\ hwDone = 0
    /\ tmpbufFreed = FALSE
    /\ touchedQueued = FALSE
    /\ touchedSending = FALSE

\* The driver writes or frees buffer b.
Touch(b) ==
    /\ touchedQueued' = (touchedQueued \/ b \in Unawaited)
    /\ touchedSending' = (touchedSending \/ b \in Sending)

\* The SPI master finishes the oldest transfer it is sending.
DmaComplete ==
    /\ hwDone < Len(queued)
    /\ hwDone' = hwDone + 1
    /\ UNCHANGED <<bpc, is_ili9488, dmaCmds, dmaLine, dmaChunks, pixels, bytes,
                   transaction_in_progress, queued, tmpbufFreed, touchedQueued,
                   touchedSending>>
    /\ UNCHANGED outsideB

\* do_update up to the scanline loop: items, paint area, RAMWR, bus acquired.
DmaUpdate ==
    /\ bpc = "idle"
    /\ dmaCmds < MaxDmaCmds
    /\ dmaCmds' = dmaCmds + 1
    /\ dmaLine' = 0
    /\ transaction_in_progress' = FALSE
    /\ bpc' = "draw"
    /\ UNCHANGED <<is_ili9488, dmaChunks, pixels, bytes, queued, hwDone,
                   tmpbufFreed, touchedQueued, touchedSending>>
    /\ UNCHANGED outsideB

\* do_update: the draw_x loop of one scanline writes screen->pixels.
DmaDrawLine ==
    /\ bpc = "draw"
    /\ Touch(pixels)
    /\ bpc' = IF transaction_in_progress THEN "await" ELSE "swap"
    /\ UNCHANGED <<is_ili9488, dmaCmds, dmaLine, dmaChunks, pixels, bytes,
                   transaction_in_progress, queued, hwDone, tmpbufFreed>>
    /\ UNCHANGED outsideB

\* do_update: spi_device_get_trans_result returns once the oldest queued
\* transfer is finished.
DmaAwait ==
    /\ bpc \in {"await", "await_last"}
    /\ hwDone > 0
    /\ queued' = Tail(queued)
    /\ hwDone' = hwDone - 1
    /\ bpc' = IF bpc = "await" THEN "swap" ELSE "release"
    /\ UNCHANGED <<is_ili9488, dmaCmds, dmaLine, dmaChunks, pixels, bytes,
                   transaction_in_progress, tmpbufFreed, touchedQueued,
                   touchedSending>>
    /\ UNCHANGED outsideB

\* do_update: the scanline buffers are swapped and the drawn one is queued;
\* on ILI9488 the byte buffers are swapped too, the scanline is converted
\* into bytes_out and bytes_out is queued.
DmaSwapAndQueue ==
    /\ bpc = "swap"
    /\ pixels' = OtherBuffer(pixels)
    /\ IF is_ili9488
       THEN /\ bytes' = OtherBuffer(bytes)
            /\ Touch(bytes)
            /\ queued' = Append(queued, bytes)
       ELSE /\ UNCHANGED <<bytes, touchedQueued, touchedSending>>
            /\ queued' = Append(queued, pixels)
    /\ transaction_in_progress' = TRUE
    /\ dmaLine' = dmaLine + 1
    /\ bpc' = IF dmaLine + 1 < DmaLines THEN "draw" ELSE "await_last"
    /\ UNCHANGED <<is_ili9488, dmaCmds, dmaChunks, hwDone, tmpbufFreed>>
    /\ UNCHANGED outsideB

\* do_update: the bus is released and the items are destroyed.
DmaUpdateReturn ==
    /\ bpc = "release"
    /\ bpc' = "idle"
    /\ UNCHANGED <<is_ili9488, dmaCmds, dmaLine, dmaChunks, pixels, bytes,
                   transaction_in_progress, queued, hwDone, tmpbufFreed,
                   touchedQueued, touchedSending>>
    /\ UNCHANGED outsideB

\* draw_buffer up to the chunk loop: paint area, RAMWR, bus acquired, tmpbuf
\* allocated. n is the number of chunks width * height gives, the last one
\* included.
DmaDrawBuffer(n) ==
    /\ bpc = "idle"
    /\ dmaCmds < MaxDmaCmds
    /\ dmaCmds' = dmaCmds + 1
    /\ dmaChunks' = n
    /\ dmaLine' = 0
    /\ tmpbufFreed' = FALSE
    /\ bpc' = IF n > 0 THEN "fill" ELSE "free"
    /\ UNCHANGED <<is_ili9488, pixels, bytes, transaction_in_progress, queued,
                   hwDone, touchedQueued, touchedSending>>
    /\ UNCHANGED outsideB

\* draw_buffer: the pixels of one chunk are converted into tmpbuf.
DmaFillChunk ==
    /\ bpc = "fill"
    /\ Touch("tmpbuf")
    /\ bpc' = "queue"
    /\ UNCHANGED <<is_ili9488, dmaCmds, dmaLine, dmaChunks, pixels, bytes,
                   transaction_in_progress, queued, hwDone, tmpbufFreed>>
    /\ UNCHANGED outsideB

\* draw_buffer: spi_display_dmawrite(..., tmpbuf) queues the chunk.
DmaQueueChunk ==
    /\ bpc = "queue"
    /\ queued' = Append(queued, "tmpbuf")
    /\ dmaLine' = dmaLine + 1
    /\ bpc' = IF dmaLine + 1 < dmaChunks THEN "fill" ELSE "free"
    /\ UNCHANGED <<is_ili9488, dmaCmds, dmaChunks, pixels, bytes,
                   transaction_in_progress, hwDone, tmpbufFreed, touchedQueued,
                   touchedSending>>
    /\ UNCHANGED outsideB

\* draw_buffer: free(tmpbuf), then the bus is released.
DmaFreeTmpbuf ==
    /\ bpc = "free"
    /\ Touch("tmpbuf")
    /\ tmpbufFreed' = TRUE
    /\ bpc' = "idle"
    /\ UNCHANGED <<is_ili9488, dmaCmds, dmaLine, dmaChunks, pixels, bytes,
                   transaction_in_progress, queued, hwDone>>
    /\ UNCHANGED outsideB

BNext ==
    \/ DmaComplete
    \/ DmaUpdate
    \/ DmaDrawLine
    \/ DmaAwait
    \/ DmaSwapAndQueue
    \/ DmaUpdateReturn
    \/ \E n \in 0..MaxChunks : DmaDrawBuffer(n)
    \/ DmaFillChunk
    \/ DmaQueueChunk
    \/ DmaFreeTmpbuf

BIdle == BInit /\ is_ili9488 = FALSE

(***************************************************************************)
(* PART 13: draw_buffer (st7789_display_driver.c, ili934x_display_driver.c, *)
(* display_driver.c, ili948x_display_driver.c): the source pixels are      *)
(* converted chunk by chunk into a staging buffer, which is sent.          *)
(***************************************************************************)
\* Pixels of one chunk (1024 in the drivers).
ChunkPixels == 4

\* Largest width and height of the area.
MaxSide == 3

\* chunk_pixels of the ILI9488 branch (512 in the driver).
HalfChunk == ChunkPixels \div 2

\* The draw_buffer variants. "ili9486" and "ili9488" are the two branches of
\* ili948x_display_driver.c.
BufferDrivers == {"st7789", "ili934x", "display_driver", "ili9486", "ili9488"}

\* Elements of tmpbuf per pixel: uint16_t, or three uint8_t on ILI9488.
ElemsPerPixel(d) == IF d = "ili9488" THEN 3 ELSE 1

\* The size of the chunks the loop advances by.
ChunkOf(d) == IF d = "ili9488" THEN HalfChunk ELSE ChunkPixels

\* Elements heap_caps_malloc is asked for.
AllocatedElems(d, size) ==
    IF d = "ili9488" THEN HalfChunk * 3
    ELSE IF size > ChunkPixels THEN ChunkPixels ELSE size

\* Pixels the conversion loop of the last, partial chunk visits: 1024 in
\* st7789, ili934x and display_driver.c, last_chunk_size in ili948x.
LastChunkLoop(d, last_chunk_size) ==
    IF d \in {"st7789", "ili934x", "display_driver"} THEN ChunkPixels
    ELSE last_chunk_size

GInit ==
    /\ gpc = "idle"
    /\ gdriver \in BufferDrivers
    /\ dest_size = 0
    /\ chunkAt = 0
    /\ tmpbufLen = 0
    /\ readEnd = 0
    /\ writeEnd = 0

\* draw_buffer up to the chunk loop.
BufStart(width, height) ==
    /\ gpc = "idle"
    /\ dest_size' = width * height
    /\ tmpbufLen' = AllocatedElems(gdriver, width * height)
    /\ chunkAt' = 0
    /\ readEnd' = 0
    /\ writeEnd' = 0
    /\ gpc' = "chunks"
    /\ UNCHANGED gdriver
    /\ UNCHANGED outsideG

\* One full chunk: "for (i = 0; i < chunks; i++)", or an iteration of
\* "while (i < dest_size)" that takes chunk_pixels pixels.
BufChunk ==
    /\ gpc = "chunks"
    /\ dest_size - chunkAt >= ChunkOf(gdriver)
    /\ (gdriver = "ili9488" => dest_size - chunkAt > ChunkOf(gdriver))
    /\ readEnd' = Max(readEnd, chunkAt + ChunkOf(gdriver))
    /\ writeEnd' = Max(writeEnd, ChunkOf(gdriver) * ElemsPerPixel(gdriver))
    /\ chunkAt' = chunkAt + ChunkOf(gdriver)
    /\ UNCHANGED <<gpc, gdriver, dest_size, tmpbufLen>>
    /\ UNCHANGED outsideG

\* The rest: "if (last_chunk_size)", or the last iteration of the while loop.
BufLastChunk ==
    /\ gpc = "chunks"
    /\ IF gdriver = "ili9488"
       THEN dest_size - chunkAt <= ChunkOf(gdriver)
       ELSE dest_size - chunkAt < ChunkOf(gdriver)
    /\ IF dest_size - chunkAt > 0
       THEN \E n \in {LastChunkLoop(gdriver, dest_size - chunkAt)} :
               /\ readEnd' = Max(readEnd, chunkAt + n)
               /\ writeEnd' = Max(writeEnd, n * ElemsPerPixel(gdriver))
       ELSE UNCHANGED <<readEnd, writeEnd>>
    /\ chunkAt' = dest_size
    /\ gpc' = "free"
    /\ UNCHANGED <<gdriver, dest_size, tmpbufLen>>
    /\ UNCHANGED outsideG

\* free(tmpbuf) and the release of the bus.
BufReturn ==
    /\ gpc = "free"
    /\ gpc' = "idle"
    /\ UNCHANGED <<gdriver, dest_size, chunkAt, tmpbufLen, readEnd, writeEnd>>
    /\ UNCHANGED outsideG

GNext ==
    \/ \E width \in 0..MaxSide, height \in 0..MaxSide : BufStart(width, height)
    \/ BufChunk
    \/ BufLastChunk
    \/ BufReturn

GIdle == GInit /\ gdriver = "st7789"

(***************************************************************************)
(* PART 14: the font loader of the simulator (ufont_parse, ufont_load_font *)
(* and epd_get_glyph of sdl_display/ufontlib.c).                           *)
(***************************************************************************)
\* Number of epd_get_glyph calls on one font.
MaxLookups == 2

\* Code points looked up: '0', 'A', 'Z', 'a'.
CodePoints == {48, 65, 90, 97}

\* Interval tables of the uFI0 record: [first, last] and the offset into the
\* glyph array.
IntervalTables ==
    {<<[first |-> 65, last |-> 90, offset |-> 0]>>,
     <<[first |-> 48, last |-> 57, offset |-> 0],
       [first |-> 65, last |-> 90, offset |-> 10]>>,
     <<[first |-> 97, last |-> 122, offset |-> 26],
       [first |-> 65, last |-> 90, offset |-> 0]>>}

RecordNames == {"uFH0", "uFP0", "uFI0", "uFB0"}

\* Font binaries: the first four bytes, whether the size stored at offset 4
\* fits the buffer, the records present from offset 12 on, and the interval
\* table (interval_count of the header is its length).
FontBinaries ==
    [first4 : {"UFL0", "FORM", "zero"},
     fits : BOOLEAN,
     records : SUBSET RecordNames,
     intervals : IntervalTables]

\* ufont_iff_is_valid_ufl: memcmp(iff, "UFL0", 4) == 0.
ufont_iff_is_valid_ufl(bin) == bin.first4 = "UFL0"

\* The values of a font pointer: a loaded font, NULL, or no value at all
\* when loading read through a null pointer.
NullFont == [state |-> "NULL", interval_count |-> 0, intervals |-> <<>>,
             has_intervals |-> FALSE, has_glyph |-> FALSE]

FaultFont == [NullFont EXCEPT !.state = "fault"]

\* The values of epd_get_glyph: a glyph slot, NULL, or a read through a null
\* pointer.
Slot(n) == [found |-> "slot", slot |-> n]

NoGlyph == [found |-> "NULL", slot |-> 0]

GlyphFault == [found |-> "fault", slot |-> 0]

\* ufont_load_font: the header is copied out of the uFH0 record (a null
\* pointer when the record is absent) and the other three pointers are stored.
ufont_load_font(bin) ==
    IF "uFH0" \notin bin.records THEN FaultFont
    ELSE [state |-> "font",
          interval_count |-> Len(bin.intervals),
          intervals |-> IF "uFI0" \in bin.records THEN bin.intervals ELSE <<>>,
          has_intervals |-> "uFI0" \in bin.records,
          has_glyph |-> "uFP0" \in bin.records]

\* ufont_parse: NULL when ufont_iff_is_valid_ufl is true or the buffer is
\* smaller than the stored size, else the records are walked and the font is
\* loaded.
ufont_parse(bin) ==
    IF ufont_iff_is_valid_ufl(bin) THEN NullFont
    ELSE IF ~bin.fits THEN NullFont
    ELSE ufont_load_font(bin)

\* epd_get_glyph from interval i on.
RECURSIVE glyph_from(_, _, _)
glyph_from(font, i, code_point) ==
    IF i > font.interval_count THEN NoGlyph
    ELSE IF ~font.has_intervals THEN GlyphFault
    ELSE LET interval == font.intervals[i]
         IN IF code_point >= interval.first /\ code_point <= interval.last
            THEN IF font.has_glyph
                 THEN Slot(interval.offset + (code_point - interval.first))
                 ELSE GlyphFault
            ELSE IF code_point < interval.first THEN NoGlyph
            ELSE glyph_from(font, i + 1, code_point)

epd_get_glyph(font, code_point) ==
    IF font.state # "font" THEN GlyphFault ELSE glyph_from(font, 1, code_point)

FInit ==
    /\ fpc = "binary"
    /\ fontBin \in FontBinaries
    /\ loaded_font = NullFont
    /\ lookups = <<>>

\* process_message, register_font: ufont_parse on the binary; the result is
\* registered whatever it is.
FontParse ==
    /\ fpc = "binary"
    /\ loaded_font' = ufont_parse(fontBin)
    /\ fpc' = "parsed"
    /\ UNCHANGED <<fontBin, lookups>>
    /\ UNCHANGED outsideF

\* A text item drawn with the registered font: epd_get_glyph for one code
\* point.
FontLookup(code_point) ==
    /\ fpc = "parsed"
    /\ Len(lookups) < MaxLookups
    /\ lookups' = Append(lookups, [code_point |-> code_point,
                                   glyph |-> epd_get_glyph(loaded_font, code_point)])
    /\ UNCHANGED <<fpc, fontBin, loaded_font>>
    /\ UNCHANGED outsideF

FNext ==
    \/ FontParse
    \/ \E code_point \in CodePoints : FontLookup(code_point)

FIdle ==
    FInit /\ fontBin = [first4 |-> "FORM", fits |-> TRUE, records |-> RecordNames,
                        intervals |-> <<[first |-> 65, last |-> 90, offset |-> 0]>>]

(***************************************************************************)
(* PART 15: what do_update of the hardware drivers allocates and frees:    *)
(* the item array, and the string of every text entry (init_item and       *)
(* destroy_items of display_items.h, respectively of display_driver.c and  *)
(* ili934x_display_driver.c, which have their own).                        *)
(***************************************************************************)
\* Longest display list.
MaxResEntries == 2

ResDrivers == {"ssd1306", "ili948x", "st7789", "memory", "ili934x", "display_driver"}

\* The drivers with an init_item and a destroy_items of their own.
LocalDecode(d) == d \in {"ili934x", "display_driver"}

\* Display list entries: a rect, an rgba8888 image, an image of another
\* format, a default16px text, a text whose string cannot be converted, a text
\* with a font that is not registered, a text with a registered font, and a
\* tuple that is no primitive.
ResEntries == {"rect", "image", "image_rgb565", "text", "text_invalid",
               "text_font", "text_ufont", "bogus"}

ResLists == UNION {[1..n -> ResEntries] : n \in 0..MaxResEntries}

\* What the primitive field of a fresh element of the array may hold.
GarbagePrimitives == {"Text", "Invalid"}

\* Whether interop_term_to_string is called for the entry and returns a
\* string.
AllocatesText(d, e) ==
    IF LocalDecode(d) THEN e = "text"
    ELSE e \in {"text", "text_font", "text_ufont"}

\* Whether init_item itself frees the string (the ufont branch, after the
\* text is drawn to a surface).
FreesTextInInit(d, uf, e) == ~LocalDecode(d) /\ uf /\ e = "text_ufont"

\* init_item of display_items.h: the primitive, and the text pointer ("own":
\* the string of this entry, "wild": never assigned).
ItemsInitItem(uf, e, g) ==
    CASE e = "rect" -> [primitive |-> "Rect", text |-> "wild"]
      [] e \in {"image", "image_rgb565"} -> [primitive |-> "Image", text |-> "wild"]
      [] e = "text" -> [primitive |-> "Text", text |-> "own"]
      [] e = "text_invalid" -> [primitive |-> g, text |-> "wild"]
      [] e = "text_font" ->
            IF uf THEN [primitive |-> g, text |-> "wild"]
            ELSE [primitive |-> "Text", text |-> "own"]
      [] e = "text_ufont" ->
            IF uf THEN [primitive |-> "Image", text |-> "wild"]
            ELSE [primitive |-> "Text", text |-> "own"]
      [] OTHER -> [primitive |-> "Invalid", text |-> "wild"]

\* init_item of display_driver.c and ili934x_display_driver.c: the primitive
\* is set first, the text pointer only after the font was accepted.
LocalInitItem(e) ==
    CASE e = "rect" -> [primitive |-> "Rect", text |-> "wild"]
      [] e \in {"image", "image_rgb565"} -> [primitive |-> "Image", text |-> "wild"]
      [] e = "text" -> [primitive |-> "Text", text |-> "own"]
      [] e = "text_invalid" -> [primitive |-> "Text", text |-> "null"]
      [] e \in {"text_font", "text_ufont"} -> [primitive |-> "Text", text |-> "wild"]
      [] OTHER -> [primitive |-> "Invalid", text |-> "wild"]

\* bus acquisition of do_update: i2c_driver_acquire of the ssd1306 driver can
\* fail, spi_device_acquire_bus with portMAX_DELAY waits.
AcquireOutcomes(d) == IF d = "ssd1306" THEN BOOLEAN ELSE {TRUE}

RInit ==
    /\ rpc = "idle"
    /\ rdriver \in ResDrivers
    /\ ufont \in BOOLEAN
    /\ rList = <<>>
    /\ rItems = <<>>
    /\ rAllocated = <<>>
    /\ rFreed = <<>>
    /\ itemsFreed = 0
    /\ wildFree = FALSE

\* do_update is entered: the item array is allocated.
ResUpdate(l) ==
    /\ rpc = "idle"
    /\ rList' = l
    /\ rItems' = <<>>
    /\ rAllocated' = <<>>
    /\ rFreed' = <<>>
    /\ itemsFreed' = 0
    /\ wildFree' = FALSE
    /\ rpc' = "init"
    /\ UNCHANGED <<rdriver, ufont>>
    /\ UNCHANGED outsideR

\* One round of the init loop: init_item on the next entry.
ResInitItem ==
    /\ rpc = "init"
    /\ Len(rItems) < Len(rList)
    /\ LET e == rList[Len(rItems) + 1]
       IN /\ \E g \in GarbagePrimitives :
                rItems' = Append(rItems, IF LocalDecode(rdriver) THEN LocalInitItem(e)
                                         ELSE ItemsInitItem(ufont, e, g))
          /\ rAllocated' = Append(rAllocated, AllocatesText(rdriver, e))
          /\ rFreed' = Append(rFreed, IF FreesTextInInit(rdriver, ufont, e) THEN 1 ELSE 0)
    /\ UNCHANGED <<rpc, rdriver, ufont, rList, itemsFreed, wildFree>>
    /\ UNCHANGED outsideR

\* The init loop is over.
ResInitDone ==
    /\ rpc = "init"
    /\ Len(rItems) = Len(rList)
    /\ rpc' = "acquire"
    /\ UNCHANGED <<rdriver, ufont, rList, rItems, rAllocated, rFreed, itemsFreed, wildFree>>
    /\ UNCHANGED outsideR

\* The bus is acquired and the frame is drawn, or do_update returns because
\* the bus could not be acquired.
ResAcquire(ok) ==
    /\ rpc = "acquire"
    /\ ok \in AcquireOutcomes(rdriver)
    /\ rpc' = IF ok THEN "destroy" ELSE "done"
    /\ UNCHANGED <<rdriver, ufont, rList, rItems, rAllocated, rFreed, itemsFreed, wildFree>>
    /\ UNCHANGED outsideR

\* destroy_items: the text of every Text item is freed, then the array.
ResDestroy ==
    /\ rpc = "destroy"
    /\ rFreed' = [i \in 1..Len(rItems) |->
                     IF rItems[i].primitive = "Text" /\ rItems[i].text = "own"
                     THEN rFreed[i] + 1 ELSE rFreed[i]]
    /\ wildFree' = (\E i \in 1..Len(rItems) :
                       rItems[i].primitive = "Text" /\ rItems[i].text = "wild")
    /\ itemsFreed' = itemsFreed + 1
    /\ rpc' = "done"
    /\ UNCHANGED <<rdriver, ufont, rList, rItems, rAllocated>>
    /\ UNCHANGED outsideR

\* The command is complete; the next one can be taken.
ResComplete ==
    /\ rpc = "done"
    /\ rpc' = "idle"
    /\ UNCHANGED <<rdriver, ufont, rList, rItems, rAllocated, rFreed, itemsFreed, wildFree>>
    /\ UNCHANGED outsideR

RNext ==
    \/ \E l \in ResLists : ResUpdate(l)
    \/ ResInitItem
    \/ ResInitDone
    \/ \E ok \in BOOLEAN : ResAcquire(ok)
    \/ ResDestroy
    \/ ResComplete

RIdle == RInit /\ rdriver = "memory" /\ ufont = FALSE

(***************************************************************************)
(* Specifications. Each one runs one part of the driver and leaves the     *)
(* other parts where construction put them.                                *)
(***************************************************************************)
vars == <<qvars, uvars, svars, mvars, evars, tvars, dvars, ivars, lvars, ovars, avars, bvars, gvars, fvars, rvars>>

QIdle == QInit /\ driver = "ili948x"

UIdle == UInit /\ family = "ili948x"

EIdle == EInit /\ tickMs = 10

\* The mailbox entry point and the worker task.
Init == QInit /\ UIdle /\ SInit /\ MInit /\ EIdle /\ TIdle /\ DIdle /\ IIdle /\ LIdle /\ OIdle /\ AIdle /\ BIdle /\ GIdle /\ FIdle /\ RIdle

Spec == Init /\ [][QNext]_vars

\* The scheduler runs a ready task: the native handler when a message waits or
\* its send is pending, the worker task when it has something to do.
FairSpec ==
    /\ Spec
    /\ WF_vars(HandlerStep)
    /\ \A w \in WorkerTasks : WF_vars(WorkerStep(w))

\* The scanline compositor.
DrawInit == QIdle /\ UInit /\ SInit /\ MInit /\ EIdle /\ TIdle /\ DIdle /\ IIdle /\ LIdle /\ OIdle /\ AIdle /\ BIdle /\ GIdle /\ FIdle /\ RIdle

DrawSpec == DrawInit /\ [][UNext]_vars

\* The simulator.
SimInit == QIdle /\ UIdle /\ SInit /\ MInit /\ EIdle /\ TIdle /\ DIdle /\ IIdle /\ LIdle /\ OIdle /\ AIdle /\ BIdle /\ GIdle /\ FIdle /\ RIdle

SimSpec == SimInit /\ [][SNext]_vars

\* The memory-LCD driver.
MemInit == QIdle /\ UIdle /\ SInit /\ MInit /\ EIdle /\ TIdle /\ DIdle /\ IIdle /\ LIdle /\ OIdle /\ AIdle /\ BIdle /\ GIdle /\ FIdle /\ RIdle

MemSpec == MemInit /\ [][MNext]_vars

\* The e-paper driver.
EpdStart == QIdle /\ UIdle /\ SInit /\ MInit /\ EInit /\ TIdle /\ DIdle /\ IIdle /\ LIdle /\ OIdle /\ AIdle /\ BIdle /\ GIdle /\ FIdle /\ RIdle

EpdSpec == EpdStart /\ [][ENext]_vars

\* The simulator's threads.
SimThreadsInit == QIdle /\ UIdle /\ SInit /\ MInit /\ EIdle /\ TInit /\ DIdle /\ IIdle /\ LIdle /\ OIdle /\ AIdle /\ BIdle /\ GIdle /\ FIdle /\ RIdle

SimThreadsSpec == SimThreadsInit /\ [][TNext]_vars

\* Both threads keep being scheduled: each step of display_create_port and of
\* display_loop up to its event loop is taken once it stays possible. A
\* wakeup without a signal, an input event and a command need not happen.
SimThreadsFairSpec ==
    /\ SimThreadsSpec
    /\ WF_vars(CtorCreate) /\ WF_vars(CtorLock) /\ WF_vars(CtorWait)
    /\ WF_vars(CtorReacquire) /\ WF_vars(CtorReturn)
    /\ WF_vars(LoopLock) /\ WF_vars(\E ok \in BOOLEAN : LoopVideo(ok))
    /\ WF_vars(\E ok \in BOOLEAN : LoopScreen(ok))
    /\ WF_vars(LoopSignal) /\ WF_vars(LoopUnlock)

\* Decoding of the display list.
DecodeInit == QIdle /\ UIdle /\ SInit /\ MInit /\ EIdle /\ TIdle /\ DInit /\ IIdle /\ LIdle /\ OIdle /\ AIdle /\ BIdle /\ GIdle /\ FIdle /\ RIdle

DecodeSpec == DecodeInit /\ [][DNext]_vars

\* Initialization of the ILI948x driver.
DisplayInit == QIdle /\ UIdle /\ SInit /\ MInit /\ EIdle /\ TIdle /\ DIdle /\ IInit /\ LIdle /\ OIdle /\ AIdle /\ BIdle /\ GIdle /\ FIdle /\ RIdle

DisplayInitSpec == DisplayInit /\ [][INext]_vars

\* The legacy dispatch generation.
LegacyInit == QIdle /\ UIdle /\ SInit /\ MInit /\ EIdle /\ TIdle /\ DIdle /\ IIdle /\ LInit /\ OIdle /\ AIdle /\ BIdle /\ GIdle /\ FIdle /\ RIdle

LegacySpec == LegacyInit /\ [][LNext]_vars

\* The worker, once it stored a PendingReply, goes on to post the event, and
\* the scheduler keeps running its event step.
LegacyFairSpec == LegacySpec /\ WF_vars(LegacyNotify) /\ WF_vars(LegacyEvent)


\* The OLED update.
OledInit == QIdle /\ UIdle /\ SInit /\ MInit /\ EIdle /\ TIdle /\ DIdle /\ IIdle /\ LIdle /\ OInit /\ AIdle /\ BIdle /\ GIdle /\ FIdle /\ RIdle

OledSpec == OledInit /\ [][ONext]_vars


\* The allocations of the simulator.
SimAllocInit == QIdle /\ UIdle /\ SInit /\ MInit /\ EIdle /\ TIdle /\ DIdle /\ IIdle /\ LIdle /\ OIdle /\ AInit /\ BIdle /\ GIdle /\ FIdle /\ RIdle

SimAllocSpec == SimAllocInit /\ [][ANext]_vars


\* The queued SPI transfers of the ILI948x driver.
DmaInit == QIdle /\ UIdle /\ SInit /\ MInit /\ EIdle /\ TIdle /\ DIdle /\ IIdle /\ LIdle /\ OIdle /\ AIdle /\ BInit /\ GIdle /\ FIdle /\ RIdle

DmaSpec == DmaInit /\ [][BNext]_vars


\* draw_buffer.
DrawBufferInit == QIdle /\ UIdle /\ SInit /\ MInit /\ EIdle /\ TIdle /\ DIdle /\ IIdle /\ LIdle /\ OIdle /\ AIdle /\ BIdle /\ GInit /\ FIdle /\ RIdle

DrawBufferSpec == DrawBufferInit /\ [][GNext]_vars


\* The font loader.
FontInit == QIdle /\ UIdle /\ SInit /\ MInit /\ EIdle /\ TIdle /\ DIdle /\ IIdle /\ LIdle /\ OIdle /\ AIdle /\ BIdle /\ GIdle /\ FInit /\ RIdle

FontSpec == FontInit /\ [][FNext]_vars


\* The allocations of an update on the hardware drivers.
ResInit == QIdle /\ UIdle /\ SInit /\ MInit /\ EIdle /\ TIdle /\ DIdle /\ IIdle /\ LIdle /\ OIdle /\ AIdle /\ BIdle /\ GIdle /\ FIdle /\ RInit

ResSpec == ResInit /\ [][RNext]_vars


----------------------------------------------------------------------------
(* Claims about the mailbox entry point and the worker.                    *)

Range(f) == {f[k] : k \in DOMAIN f}

\* s is what remains of t after some of its front elements are removed.
IsSuffix(s, t) ==
    /\ Len(s) <= Len(t)
    /\ s = SubSeq(t, Len(t) - Len(s) + 1, Len(t))

\* The entry point has returned from an invocation made on a full queue
\* during which the worker dequeued nothing.
FullUndisturbed == hist.done /\ hist.full /\ ~hist.interfered

\* C1: ILI948x. When the queue already holds QueueLength commands and the
\* entry point is invoked with one more while the worker dequeues nothing,
\* the oldest queued command has been discarded (disposed, never processed)
\* and the queue holds the other commands followed by the new one, in
\* arrival order.
C1_DropOldestOnOverflow ==
    (driver = "ili948x" /\ FullUndisturbed) =>
        /\ hist.after = Tail(hist.before) \o <<hist.msg>>
        /\ disposed[Head(hist.before)] = 1
        /\ <<"begin", Head(hist.before)>> \notin Range(procLog)
        /\ \A k \in 1..(Len(hist.after) - 1) : hist.after[k] < hist.after[k + 1]

C1_Witness ==
    /\ driver = "ili948x"
    /\ FullUndisturbed
    /\ Len(hist.before) = QueueLength
    /\ Len(hist.after) = QueueLength

\* C2: in the OLED, ST7789 and e-paper drivers the entry point takes one
\* message per invocation, enqueues it without blocking, and on a full queue
\* drops the oldest queued message to make room for the new one.
C2_AsClaimed ==
    (driver # "ili948x") =>
        /\ hpc # "wait_one_tick"
        /\ hist.done =>
             /\ hist.took = 1
             /\ (hist.full /\ ~hist.interfered) =>
                    hist.after = Tail(hist.before) \o <<hist.msg>>

\* What xQueueSend(display_messages_queue, &msg, 1) with its result ignored
\* does in these drivers: the entry point waits up to one tick for room; when
\* the queue stays full for the tick the new message is neither enqueued nor
\* disposed, and no queued message is removed.
TimedOutSendLosesNewest ==
    (driver # "ili948x" /\ hist.done) =>
        /\ hist.took = 1
        /\ ~hist.full => hist.after = Append(hist.before, hist.msg)
        /\ (hist.full /\ ~hist.interfered) =>
               /\ hist.after = hist.before
               /\ hist.msg \in lost
        /\ (hist.full /\ hist.interfered) =>
               /\ IsSuffix(hist.after, Append(hist.before, hist.msg))
               /\ hist.after # <<>>
               /\ hist.after[Len(hist.after)] = hist.msg
        /\ \A i \in Ids : disposed[i] > 0 => <<"end", i>> \in Range(procLog)

\* The message with token i is in the worker's hands.
Dequeued(i) == \E w \in WorkerTasks : wmsg[w].id = i

\* The message with token i was discarded without being processed.
Discarded(i) ==
    \/ i \in lost
    \/ disposed[i] > 0 /\ <<"begin", i>> \notin Range(procLog)

\* C3: every update command delivered to the inbox eventually
\* results in exactly one ok reply carrying its correlation token.
C3_AsClaimed ==
    \A i \in Ids : (i \in updates) ~> (okReplies[i] = 1)

\* C3, restricted to what the worker receives: every update command the worker
\* dequeues eventually results
\* in exactly one ok reply carrying its token, sent only after do_update has
\* returned for it (rasterization and transfer finished, or, in the OLED
\* driver, given up because the bus could not be acquired); an update command
\* discarded by the overflow policy gets no reply.
C3_DequeuedUpdateReplied ==
    /\ [](\A i \in Ids :
            /\ okReplies[i] <= 1
            /\ (i \in updates /\ okReplies[i] = 1) =>
                   /\ i \notin rasterizing
                   /\ i \in (transferred \cup busFailed)
            /\ i \in busFailed => driver = "ssd1306"
            /\ (i \in updates /\ Discarded(i)) => okReplies[i] = 0)
    /\ \A i \in Ids : (i \in updates /\ Dequeued(i)) ~> (okReplies[i] = 1)

C3_Witness ==
    \E i \in Ids, j \in Ids :
        /\ i \in updates /\ okReplies[i] = 1 /\ i \in transferred
        /\ j \in updates /\ Discarded(j)

\* The positions in procLog where process_message was entered.
Begins == {k \in 1..Len(procLog) : procLog[k][1] = "begin"}

\* C4: commands are processed in inbox order, one at a time: of two commands
\* that are both processed, the one delivered first has its processing, reply
\* included, completed before processing of the other begins, also when
\* commands in between were discarded by the overflow policy.
C4_ProcessedInInboxOrder ==
    \A a \in Begins, b \in Begins :
        a < b =>
            /\ procLog[a][2] < procLog[b][2]
            /\ \E e \in (a + 1)..(b - 1) : procLog[e] = <<"end", procLog[a][2]>>
            /\ SendsOk(driver, "update") /\ procLog[a][2] \in updates
                   => okReplies[procLog[a][2]] = 1

C4_Witness ==
    \E a \in Begins, b \in Begins :
        /\ a < b
        /\ \E i \in Ids : procLog[a][2] < i /\ i < procLog[b][2] /\ Discarded(i)

\* C5: at most one rasterization/transfer sequence is executing at any time.
C5_OneUpdateInFlight ==
    /\ Cardinality(rasterizing) <= 1
    /\ Cardinality({w \in WorkerTasks : wpc[w] = "update"}) <= 1

C5_Witness ==
    /\ rasterizing # {}
    /\ \E k \in 1..Len(queue) : queue[k].cmd = "update"
    /\ mailbox # <<>>

----------------------------------------------------------------------------
(* Claims about the scanline compositor.                                   *)

OnScreen == (0..(ScreenW - 1)) \X (0..(ScreenH - 1))

InBox(item, p) == Covers(item, p[1], p[2])

\* The value the item alone puts at pixel p of its bounding box.
ItemValueAt(f, item, p) ==
    IF item.primitive = "Rect"
    THEN draw_rect_x(f, p[1], p[2], 1, item)[1]
    ELSE ImagePixelValue(f, p[1], p[2],
             PixelAt(item.pix, ((p[2] - item.y) * item.width) + (p[1] - item.x)),
             item.brcolor)

\* An item that paints every pixel of its bounding box with its own colour:
\* a rectangle, or an image all of whose pixels have alpha 0xFF.
OpaqueItem(item) ==
    \/ item.primitive = "Rect"
    \/ /\ item.primitive = "Image"
       /\ \A idx \in 0..((item.width * item.height) - 1) : PixelAt(item.pix, idx)[4] = 255

Overlapping(a, b) == \E p \in OnScreen : InBox(a, p) /\ InBox(b, p)

TwoOpaqueOverlapping ==
    /\ upc = "done"
    /\ Len(displayList) = 2
    /\ OpaqueItem(displayList[1])
    /\ OpaqueItem(displayList[2])
    /\ Overlapping(displayList[1], displayList[2])

\* C6: when a display list holds two overlapping opaque items, A first and B
\* second, the finished frame shows A's colour at every on-screen pixel of A's
\* bounding box, whichever rasterizer (display_driver.c included) ran.
C6_EarlierItemOnTop ==
    TwoOpaqueOverlapping =>
        \A p \in OnScreen :
            InBox(displayList[1], p) =>
                frame[p] = ItemValueAt(family, displayList[1], p)

\* An image without background all of whose pixels have alpha zero.
TransparentImage(item) ==
    /\ item.primitive = "Image"
    /\ item.brcolor = NoColor
    /\ \A idx \in 0..((item.width * item.height) - 1) : PixelAt(item.pix, idx)[4] = 0

TransparentOverRect ==
    /\ upc = "done"
    /\ family \in {"monochrome", "ili948x"}
    /\ Len(displayList) = 2
    /\ TransparentImage(displayList[1])
    /\ displayList[2].primitive = "Rect"

\* C7: with a fully transparent image listed before an opaque rectangle, every
\* on-screen pixel covered by both shows the rectangle's colour in the finished
\* frame (draw_common.h with monochrome.h, and ili948x_display_driver.c).
C7_TransparentImageShowsRect ==
    TransparentOverRect =>
        \A p \in OnScreen :
            (InBox(displayList[1], p) /\ InBox(displayList[2], p)) =>
                frame[p] = ItemValueAt(family, displayList[2], p)

\* A finished frame of such a list in which the black rectangle lies wholly
\* under the image and shows through at pixel (1, 0).
C7_Witness ==
    /\ TransparentOverRect
    /\ displayList[2].brcolor = Black
    /\ \A p \in OnScreen : InBox(displayList[2], p) => InBox(displayList[1], p)
    /\ InBox(displayList[2], <<1, 0>>)
    /\ frame[<<1, 0>>] = ItemValueAt(family, displayList[2], <<1, 0>>)

----------------------------------------------------------------------------
(* Claims about the simulator.                                             *)

\* C8: after every update the simulator has processed, screen->pixels equals
\* what rasterizing the whole new display list over the buffer the update
\* started from produces.
C8_DamageRedrawEqualsFullRedraw ==
    (spc = "idle" /\ simUpdates > 0) =>
        simBuf = Redraw(simBefore, simPrev, ScreenRect).buf

\* The two items share no pixel.
DisjointItems(b, c) ==
    \/ b.x + b.width <= c.x \/ c.x + c.width <= b.x
    \/ b.y + b.height <= c.y \/ c.y + c.height <= b.y

\* The smallest rectangle holding both bounding boxes.
BoxUnion(b, c) ==
    [valid |-> TRUE, x |-> Min(b.x, c.x), y |-> Min(b.y, c.y),
     width |-> Max(b.x + b.width, c.x + c.width) - Min(b.x, c.x),
     height |-> Max(b.y + b.height, c.y + c.height) - Min(b.y, c.y)]

\* C9: when the previous display list is [A, B] and the new one is [A, C] with
\* B and C in disjoint screen regions, the damage rectangle of the update is
\* the union of B's and C's bounding boxes, clipped to the screen.
C9_DamageIsUnionOfChangedItems ==
    (/\ spc = "idle"
     /\ Len(simOrig) = 2
     /\ Len(simPrev) = 2
     /\ cmp_display_item(simPrev[1], simOrig[1])
     /\ DisjointItems(simOrig[2], simPrev[2])) =>
        simDamage = clip_rectangle(BoxUnion(simOrig[2], simPrev[2]), ScreenRect)

----------------------------------------------------------------------------
(* Claims about the memory-LCD driver.                                     *)

\* C10: over consecutive updates of the memory-LCD driver the polarity bit of
\* the mode byte alternates from one update to the next, starting from the
\* initial value of vcom (0) on the first update: the k-th update is sent with
\* polarity 0 when k is odd and with polarity 0x2 when k is even.
C10_PolarityAlternatesPerUpdate ==
    \A k \in 1..Len(firstMode) :
        PolarityBit(firstMode[k]) = (IF k % 2 = 1 THEN 0 ELSE 2)

----------------------------------------------------------------------------
(* Claims about the e-paper driver.                                        *)

\* The number of clear passes update call n has started.
ClearPasses(n) ==
    Cardinality({i \in 1..Len(epdLog) : epdLog[i] = [n |-> n, what |-> "clear"]})

\* C11: in the e-paper driver the n-th update since start-up performs one
\* full-panel clear pass exactly when n is 1, 6, 11, ..., and no clear pass on
\* any other update; the clear pass comes before the update's own transfer.
C11_ClearOnEveryFifthUpdate ==
    /\ \A n \in 1..epdUpdates :
          ClearPasses(n) = (IF n % RefreshPeriod = 1 THEN 1 ELSE 0)
    /\ \A i, j \in 1..Len(epdLog) :
          (epdLog[i].n = epdLog[j].n /\ epdLog[i].what = "clear"
             /\ epdLog[j].what = "update") => i < j

\* The sixth update has run its clear pass and started its own transfer, and
\* the second to fifth updates have started theirs.
C11_Witness ==
    /\ epdUpdates = 6
    /\ epc = "up_transfer"
    /\ ClearPasses(6) = 1
    /\ \A n \in 1..6 : \E i \in 1..Len(epdLog) : epdLog[i] = [n |-> n, what |-> "update"]

\* C12: in the e-paper driver, when an update call follows another one, no
\* transfer of the second call (the transfer of its clear pass, if it has one,
\* and the transfer of its update sequence) starts before 2000 ms have elapsed
\* since the first call recorded its completion timestamp.
C12_TransferWaitsForRefreshPause ==
    (epdUpdates >= 2 /\ epc \in {"cs_transfer", "up_transfer"}) =>
        sincePrev >= RefreshWaitMs

\* C13: in the e-paper driver, on every path (initialization, clear pass,
\* update) the bus is not held while wait_busy_level is blocked waiting for
\* the busy line.
C13_BusReleasedBeforeBusyPoll ==
    ~(pollBlocked /\ busHeld)

----------------------------------------------------------------------------
(* Claims about the simulator's threads and its input subscription.        *)

\* C14: whenever display_create_port has returned, display_loop has created
\* the window surface and allocated the back buffer (screen and its pixels).
C14_ConstructorReturnsAfterSurface ==
    cpc = "returned" => (surfaceSet /\ screenSet)

\* A subscribe_input command that was accepted while a process was subscribed.
SecondSubscription(c) ==
    /\ c.cmd = "subscribe_input"
    /\ c.arity = 2
    /\ c.locked
    /\ c.before # 0

----------------------------------------------------------------------------
(* Claims about the scanline buffer.                                       *)

\* C16: for every display list, items reaching past the right screen edge
\* included, no draw function writes a pixel at or beyond the width of the
\* scanline buffer.
C16_NoWriteOutsideScanline ==
    ~overflow

----------------------------------------------------------------------------
(* Claims about the decoding of the display list.                          *)

\* The items init_item makes of the entries of l it can decode.
DecodedWithout(l) ==
    LET good == SelectSeq(l, LAMBDA e : ~Undecodable(e))
        held == CHOOSE g \in GarbageItems : TRUE
    IN [k \in 1..Len(good) |-> init_item(held, good[k])]

\* C17: once do_update has decoded a display list, every entry that cannot
\* be decoded (unknown primitive, unsupported image format, invalid text) has
\* become the Invalid 1x1 item, the update runs to its end, and the frame is
\* the one the list without that entry gives.
C17_BadEntryBecomesInvalid ==
    /\ dpc # "fault"
    /\ \A i \in 1..Len(dItems) :
          Undecodable(dList[i]) =>
             (dItems[i].primitive = "Invalid" /\ dItems[i].width = 1
                /\ dItems[i].height = 1)
    /\ dpc = "done" => dFrame = Rasterize(DecodedWithout(dList))

----------------------------------------------------------------------------
(* Claims about the initialization of the ILI948x driver.                  *)

\* A required option is missing or invalid: the chip-select, reset or
\* data/command pin, the device identity, the rotation, the inversion flag.
RequiredOptionInvalid(opts) ==
    \/ opts.spi_cs_gpio = "absent"
    \/ opts.reset = "absent"
    \/ opts.dc = "absent"
    \/ opts.compatible \notin {"ilitek,ili9486", "ilitek,ili9488"}
    \/ opts.rotation # "integer"
    \/ opts.enable_tft_invon \notin {"true", "false"}

\* C18: when a required ILI948x option is missing or invalid, display_init
\* never uses the bus and never starts the worker task, and once the options
\* have been read it has logged the error and returned.
C18_InvalidOptionsAbortInit ==
    (ipc # "start" /\ RequiredOptionInvalid(iopts)) =>
        /\ busUses = 0
        /\ ~workerStarted
        /\ ipc \in {"options", "aborted"}
        /\ ipc = "aborted" => errorLogged

----------------------------------------------------------------------------
(* Claims about the legacy dispatch generation.                            *)

\* C19: every command the worker processed that requires a reply eventually
\* has its reply sent by the event step, and never more than one, however
\* many commands the worker processes before the event step runs.
C19_EveryReplyEventuallySent ==
    /\ [](\A i \in 1..MaxLegacyCmds : repliesSent[i] <= 1)
    /\ \A i \in 1..MaxLegacyCmds :
          (i \in ReplyingCmds) ~> (repliesSent[i] = 1)

----------------------------------------------------------------------------
(* Claims about the OLED page packing.                                     *)

\* The luma get_color compares with 128, before the dither offset is added.
Luma(c) == ((c[1] * 2) + c[1] + (c[2] * 4) + c[3]) \div 8

DitherValues == {DitherMatrix[i][j] : i \in 1..4, j \in 1..4}
DitherLow == CHOOSE v \in DitherValues : \A w \in DitherValues : v <= w
DitherHigh == CHOOSE v \in DitherValues : \A w \in DitherValues : v >= w

\* A page whose DISPLAY_WIDTH bytes all have the value b.
UniformPage(b) == [i \in 1..DISPLAY_WIDTH |-> b]

\* The update of a single Rect of colour c over the whole screen has ended.
FullScreenUpdateEnded(c) ==
    opc \in {"done", "returned"} /\ oledItems = <<FullScreenRect(c)>>

\* C20: an update whose display list is a single Rect covering the whole
\* screen transmits one write per page, each carrying DISPLAY_WIDTH data
\* bytes that are all 0xFF when the luma of the colour is at least 128 and
\* all 0x00 when it is below.
C20_AsClaimed ==
    \A c \in OledColors :
        FullScreenUpdateEnded(c) =>
            /\ Len(pageWrites) = OledPages
            /\ \A k \in 1..Len(pageWrites) :
                  pageWrites[k].data = UniformPage(IF Luma(c) >= 128 THEN 255 ELSE 0)

\* C20, with the dither and the acquisition taken into account: when the I2C
\* peripheral was acquired, the update of a single Rect covering the whole
\* screen transmits one write per page, in page order, each carrying
\* DISPLAY_WIDTH data bytes; they are all 0xFF when the luma plus the lowest
\* dither offset reaches 128, all 0x00 when the luma plus the highest dither
\* offset stays below 128, and neither for the colours in between.
C20_FullScreenRectPages ==
    \A c \in OledColors :
        (opc = "done" /\ oledItems = <<FullScreenRect(c)>>) =>
            /\ Len(pageWrites) = OledPages
            /\ \A k \in 1..Len(pageWrites) :
                  /\ pageWrites[k].page = k - 1
                  /\ Len(pageWrites[k].data) = DISPLAY_WIDTH
                  /\ Luma(c) + DitherLow >= 128 => pageWrites[k].data = UniformPage(255)
                  /\ Luma(c) + DitherHigh < 128 => pageWrites[k].data = UniformPage(0)
                  /\ (Luma(c) + DitherLow < 128 /\ Luma(c) + DitherHigh >= 128) =>
                        pageWrites[k].data \notin {UniformPage(255), UniformPage(0)}

C20_Witness ==
    /\ opc = "done"
    /\ oledItems = <<FullScreenRect(White)>>
    /\ Len(pageWrites) = OledPages
    /\ \A k \in 1..OledPages : pageWrites[k].data = UniformPage(255)

\* C27: in every page write, the bit of a pixel that no item of the display
\* list covers is 0.
C27_UncoveredPixelIsZero ==
    \A k \in 1..Len(pageWrites) :
       \A x \in 0..(DISPLAY_WIDTH - 1), b \in 0..(PAGE_HEIGHT - 1) :
          (\A i \in 1..Len(oledItems) :
              ~Covers(oledItems[i], x, (pageWrites[k].page * PAGE_HEIGHT) + b))
             => BitOf(pageWrites[k].data[x + 1], b) = 0

----------------------------------------------------------------------------
(* Further claims about the simulator.                                     *)

\* C29: dumb_diff never reads an element of the previous item array at an
\* index of orig_len or beyond, whatever the lengths and contents of the two
\* lists.
C29_DumbDiffReadsInsideArrays == ~simOobRead

\* The update messages taken so far.
UpdatesTaken == {n \in 1..Len(msgKinds) : IsUpdate(msgKinds[n])}

\* The most recent update whose do_update has replaced prev_items.
LatestUpdate == prev_items

----------------------------------------------------------------------------
(* Further claims about the threads of the simulator.                      *)

\* C24: once display_loop has created the window and signalled ready (and
\* the simulator has not aborted), display_create_port eventually returns,
\* in every interleaving of the two threads.
C24_ConstructorEventuallyReturns ==
    (lpc \in {"unlock", "events"}) ~> (cpc = "returned" \/ simDown)

----------------------------------------------------------------------------
(* Further claims about the mailbox entry point and the worker task.       *)

\* The process_message calls that started for the message with token i.
BeginsOf(i) == {k \in 1..Len(procLog) : procLog[k] = <<"begin", i>>}

\* C23: no message the entry point took is dropped without being disposed,
\* none is disposed twice or processed twice, and a message that was
\* processed is disposed only after process_message has returned for it.
C23_TakenMessageDisposedOnce ==
    /\ lost = {}
    /\ \A i \in Ids :
          /\ disposed[i] <= 1
          /\ Cardinality(BeginsOf(i)) <= 1
          /\ (disposed[i] = 1 /\ BeginsOf(i) # {}) => <<"end", i>> \in Range(procLog)

----------------------------------------------------------------------------
(* Claims about the queued SPI transfers.                                  *)

\* C22: the driver never writes to or frees a buffer it has queued for
\* sending before it has awaited the completion of that transfer, in
\* do_update and in draw_buffer.
C22_NoTouchBeforeTransferAwaited == ~touchedQueued

----------------------------------------------------------------------------
(* Claims about draw_buffer.                                               *)

\* C28: draw_buffer reads no source pixel at index width * height or beyond
\* and writes no element of the staging buffer beyond those it allocated,
\* for every width and height.
C28_DrawBufferStaysInBounds ==
    /\ readEnd <= dest_size
    /\ writeEnd <= tmpbufLen

----------------------------------------------------------------------------
(* Claims about the font loader.                                           *)

\* A complete container that starts with the magic UFL0 and maps the one
\* interval [0x41, 0x5A] to glyph slots 0..25.
UpperCaseFont(bin) ==
    /\ bin.first4 = "UFL0"
    /\ bin.fits
    /\ bin.records = RecordNames
    /\ bin.intervals = <<[first |-> 65, last |-> 90, offset |-> 0]>>

\* C21: for such a container, every epd_get_glyph on the font ufont_parse
\* returned gives slot 0 for 'A', slot 25 for 'Z' and not-found for 'a'.
C21_UpperCaseFontResolves ==
    UpperCaseFont(fontBin) =>
        \A k \in 1..Len(lookups) :
           /\ lookups[k].code_point = 65 => lookups[k].glyph = Slot(0)
           /\ lookups[k].code_point = 90 => lookups[k].glyph = Slot(25)
           /\ lookups[k].code_point = 97 => lookups[k].glyph = NoGlyph

----------------------------------------------------------------------------
(* Claims about the allocations of an update.                              *)

\* C25: when a command completes, the item array of a non-empty list was
\* freed exactly once (never more often), every string allocated for a text
\* entry was freed exactly once, and nothing else was freed.
C25_ItemsAndTextsFreedOnce ==
    rpc = "done" =>
        /\ itemsFreed <= 1
        /\ Len(rList) > 0 => itemsFreed = 1
        /\ \A i \in 1..Len(rItems) : rFreed[i] = (IF rAllocated[i] THEN 1 ELSE 0)
        /\ ~wildFree

----------------------------------------------------------------------------
(* Claims about the run lengths of the scanline compositor.                *)

\* C30: at every on-screen position of the scanline loop, draw_x returns a
\* run length of at least 1 and at most the number of pixels left on the
\* scanline, so that xpos never passes the screen width and the loop ends
\* with xpos equal to it.
C30_RunLengthWithinScanline ==
    /\ xpos <= ScreenW
    /\ (upc = "line" /\ xpos < ScreenW) =>
           LET r == draw_x(family, xpos, ypos, items)
           IN r.drawn_pixels >= 1 /\ xpos + r.drawn_pixels <= ScreenW
====
